---- MODULE Spec2Model ----
(***************************************************************************)
(* Propositional-logic engine of project-gplc: Formula (tokenizer, parser, *)
(* printer, evaluator), the 19 inference rules and the ProofSystem.        *)
(*                                                                         *)
(* Text is modelled by strings of one-character symbols.  The source's     *)
(* non-ASCII connectives are written with one lower-case letter each:      *)
(*      a = AND sign     o = OR sign      n = NOT sign    i = IMPLIES arrow *)
(*      e = IFF arrow    x = XOR sign     u = NAND arrow  d = NOR arrow    *)
(* The ASCII synonyms of the source keep their spelling: & | ~ ^ -> <->.   *)
(* Propositions are the upper-case letters.                                *)
(***************************************************************************)
EXTENDS Integers, Sequences, FiniteSets, TLC

\* premises .. is_complete: the attributes of the ProofSystem object.
\* call, result: the call a caller has pending on it and what the last call
\*     returned.
\* rule_in, rule_out: the formulas handed to one inference rule and what its
\*     can_apply and apply returned.
\* text_in, text_out: an expression handed to the Formula constructor and
\*     what to_string printed for it.
\* table: the attributes of a TruthTable object.
\* args, returned: the arguments given to the operations of Formula,
\*     TruthTable and FormulaValidator under study, and what each operation
\*     returned last.
VARIABLES premises, proof_steps, conclusion, step_index, is_complete,
          call, result, rule_in, rule_out, text_in, text_out,
          table, args, returned

vars == <<premises, proof_steps, conclusion, step_index, is_complete,
          call, result, rule_in, rule_out, text_in, text_out,
          table, args, returned>>

proof_vars == <<premises, proof_steps, conclusion, step_index, is_complete>>

session_vars == <<premises, proof_steps, conclusion, step_index, is_complete,
                  call, result>>

rule_vars == <<rule_in, rule_out>>

text_vars == <<text_in, text_out>>

query_vars == <<table, args, returned>>

(***************************************************************************)
(* formula.py : characters and tokens                                      *)
(***************************************************************************)
UpperLetters ==
    {"A","B","C","D","E","F","G","H","I","J","K","L","M",
     "N","O","P","Q","R","S","T","U","V","W","X","Y","Z"}

Char(s, k) == SubSeq(s, k, k)

IsSpace(c) == c = " "

Tok(t, v) == [type |-> t, value |-> v]

\* One iteration of the while loop of _tokenize at position k: the token read
\* there (type "SKIP" for white space, "BAD" for an invalid character) and
\* the number of characters consumed.
TokenAt(s, k) ==
    LET c == Char(s, k) IN
    IF IsSpace(c) THEN [tok |-> Tok("SKIP", c), len |-> 1]
    ELSE IF c \in UpperLetters THEN [tok |-> Tok("PROP", c), len |-> 1]
    ELSE IF c = "a" \/ c = "&" THEN [tok |-> Tok("AND", "a"), len |-> 1]
    ELSE IF c = "o" \/ c = "|" THEN [tok |-> Tok("OR", "o"), len |-> 1]
    ELSE IF c = "n" \/ c = "~" THEN [tok |-> Tok("NOT", "n"), len |-> 1]
    ELSE IF c = "i" THEN [tok |-> Tok("IMPLIES", "i"), len |-> 1]
    ELSE IF c = "e" THEN [tok |-> Tok("IFF", "e"), len |-> 1]
    ELSE IF c = "x" \/ c = "^" THEN [tok |-> Tok("XOR", "x"), len |-> 1]
    ELSE IF c = "u" THEN [tok |-> Tok("NAND", "u"), len |-> 1]
    ELSE IF c = "d" THEN [tok |-> Tok("NOR", "d"), len |-> 1]
    ELSE IF c = "-" /\ k + 1 <= Len(s) /\ Char(s, k + 1) = ">"
         THEN [tok |-> Tok("IMPLIES", "i"), len |-> 2]
    ELSE IF c = "<" /\ k + 2 <= Len(s) /\ SubSeq(s, k + 1, k + 2) = "->"
         THEN [tok |-> Tok("IFF", "e"), len |-> 3]
    ELSE IF c = "(" THEN [tok |-> Tok("LPAREN", "("), len |-> 1]
    ELSE IF c = ")" THEN [tok |-> Tok("RPAREN", ")"), len |-> 1]
    ELSE [tok |-> Tok("BAD", c), len |-> 1]

RECURSIVE TokenizeFrom(_, _, _)
TokenizeFrom(s, k, acc) ==
    IF k > Len(s) THEN [ok |-> TRUE, tokens |-> acc]
    ELSE LET t == TokenAt(s, k) IN
         IF t.tok.type = "BAD" THEN [ok |-> FALSE, tokens |-> acc]
         ELSE IF t.tok.type = "SKIP" THEN TokenizeFrom(s, k + t.len, acc)
         ELSE TokenizeFrom(s, k + t.len, Append(acc, t.tok))

\* _tokenize: ok = FALSE stands for the ValueError "Invalid character".
Tokenize(s) == TokenizeFrom(s, 1, <<>>)

(***************************************************************************)
(* formula.py : AST nodes and the recursive-descent parser                 *)
(***************************************************************************)
Prop(v) == [type |-> "PROP", value |-> v]
Neg(op, x) == [type |-> "NOT", operator |-> op, operand |-> x]
Bin(t, op, l, r) == [type |-> t, operator |-> op, left |-> l, right |-> r]
ErrNode == [type |-> "ERR"]
NoneNode == [type |-> "NONE"]

\* A parse result: the node and the position after it; ok = FALSE stands for
\* a raised ValueError.  Positions are 1-based (tokens[pos] of the source is
\* tokens[pos + 1] here).
POk(node, pos) == [ok |-> TRUE, node |-> node, pos |-> pos]
PErr(pos) == [ok |-> FALSE, node |-> ErrNode, pos |-> pos]

TypeAt(tokens, pos) == IF pos <= Len(tokens) THEN tokens[pos].type ELSE "EOF"

RECURSIVE parse_iff(_, _), iff_loop(_, _, _, _), parse_implies(_, _),
          parse_or(_, _), or_loop(_, _, _, _), parse_xor(_, _), xor_loop(_, _, _, _),
          parse_and(_, _), and_loop(_, _, _, _), parse_not(_, _), parse_atom(_, _)

\* What a parser function does with the operand r it has just parsed: it
\* passes an error on, or goes on with next(r).
AndThen(r, next(_)) == IF ~r.ok THEN r ELSE next(r)

\* Joined with the operands of the operator exchanged.
Joined_swapped(tokens, first, left, pos, r) ==
    IF first THEN r.node
    ELSE Bin(tokens[pos].type, tokens[pos].value, r.node, left)

\* The left operand after one more operand r was parsed: r itself when it is
\* the first one, else the node of the operator token at pos over left and r.
Joined(tokens, first, left, pos, r) ==
    IF first THEN r.node
    ELSE Bin(tokens[pos].type, tokens[pos].value, left, r.node)

\* _parse_atom
parse_atom(tokens, pos) ==
    IF pos > Len(tokens) THEN PErr(pos)
    ELSE IF tokens[pos].type = "PROP" THEN POk(Prop(tokens[pos].value), pos + 1)
    ELSE IF tokens[pos].type = "LPAREN"
         THEN AndThen(parse_iff(tokens, pos + 1),
                      LAMBDA r : IF TypeAt(tokens, r.pos) # "RPAREN" THEN PErr(r.pos)
                                 ELSE POk(r.node, r.pos + 1))
    ELSE PErr(pos)

\* _parse_not
parse_not(tokens, pos) ==
    IF TypeAt(tokens, pos) = "NOT"
    THEN AndThen(parse_not(tokens, pos + 1),
                 LAMBDA r : POk(Neg(tokens[pos].value, r.node), r.pos))
    ELSE parse_atom(tokens, pos)

\* _parse_and: "left = self._parse_not()" (first = TRUE, the operand starts
\* at pos) and then the while loop (first = FALSE, pos is the position of a
\* possible operator token, left the operand parsed so far).
and_loop(tokens, first, left, pos) ==
    IF first \/ TypeAt(tokens, pos) \in {"AND", "NAND"}
    THEN AndThen(parse_not(tokens, IF first THEN pos ELSE pos + 1),
                 LAMBDA r : and_loop(tokens, FALSE,
                                     Joined(tokens, first, left, pos, r), r.pos))
    ELSE POk(left, pos)

parse_and(tokens, pos) == and_loop(tokens, TRUE, NoneNode, pos)

\* _parse_xor
xor_loop(tokens, first, left, pos) ==
    IF first \/ TypeAt(tokens, pos) = "XOR"
    THEN AndThen(parse_and(tokens, IF first THEN pos ELSE pos + 1),
                 LAMBDA r : xor_loop(tokens, FALSE,
                                     Joined(tokens, first, left, pos, r), r.pos))
    ELSE POk(left, pos)

parse_xor(tokens, pos) == xor_loop(tokens, TRUE, NoneNode, pos)

\* _parse_or
or_loop(tokens, first, left, pos) ==
    IF first \/ TypeAt(tokens, pos) \in {"OR", "NOR"}
    THEN AndThen(parse_xor(tokens, IF first THEN pos ELSE pos + 1),
                 LAMBDA r : or_loop(tokens, FALSE,
                                    Joined(tokens, first, left, pos, r), r.pos))
    ELSE POk(left, pos)

parse_or(tokens, pos) == or_loop(tokens, TRUE, NoneNode, pos)

\* _parse_implies: right associative
parse_implies(tokens, pos) ==
    AndThen(parse_or(tokens, pos),
            LAMBDA l : IF TypeAt(tokens, l.pos) = "IMPLIES"
                       THEN AndThen(parse_implies(tokens, l.pos + 1),
                                    LAMBDA r : POk(Bin("IMPLIES", tokens[l.pos].value,
                                                       l.node, r.node), r.pos))
                       ELSE l)

\* _parse_iff
iff_loop(tokens, first, left, pos) ==
    IF first \/ TypeAt(tokens, pos) = "IFF"
    THEN AndThen(parse_implies(tokens, IF first THEN pos ELSE pos + 1),
                 LAMBDA r : iff_loop(tokens, FALSE,
                                     Joined(tokens, first, left, pos, r), r.pos))
    ELSE POk(left, pos)

parse_iff(tokens, pos) == iff_loop(tokens, TRUE, NoneNode, pos)

\* The end of _parse: the node, ErrNode when the parser raised or left a token.
ParseEnd(tokens, r) ==
    IF ~r.ok THEN ErrNode
    ELSE IF r.pos <= Len(tokens) THEN ErrNode
    ELSE r.node

ParseTokens(t) ==
    IF ~t.ok \/ t.tokens = <<>> THEN ErrNode
    ELSE ParseEnd(t.tokens, parse_iff(t.tokens, 1))

\* _parse: the AST of an expression, ErrNode when a ValueError is raised
\* (invalid character, no token, unconsumed token, parser error).
Parse(expression) == ParseTokens(Tokenize(expression))

(***************************************************************************)
(* formula.py : printer                                                    *)
(***************************************************************************)
precedence(t) ==
    CASE t = "IFF" -> 1
      [] t = "IMPLIES" -> 2
      [] t \in {"OR", "NOR"} -> 3
      [] t = "XOR" -> 4
      [] t \in {"AND", "NAND"} -> 5
      [] OTHER -> 0

needs_parentheses(child_node, parent_type, is_left) ==
    IF child_node.type \in {"PROP", "NOT"} THEN FALSE
    ELSE IF parent_type \in {"IMPLIES", "IFF"} THEN TRUE
    ELSE IF precedence(child_node.type) < precedence(parent_type) THEN TRUE
    ELSE IF parent_type = "IMPLIES" /\ is_left
            /\ precedence(child_node.type) = precedence(parent_type) THEN TRUE
    ELSE FALSE

Paren(s) == "(" \o s \o ")"

RECURSIVE to_string(_)
to_string(node) ==
    IF node.type = "PROP" THEN node.value
    ELSE IF node.type = "NOT"
         THEN node.operator \o
              (IF node.operand.type \notin {"PROP", "NOT"}
               THEN Paren(to_string(node.operand))
               ELSE to_string(node.operand))
    ELSE LET l == to_string(node.left)
             r == to_string(node.right)
             ls == IF needs_parentheses(node.left, node.type, TRUE)
                   THEN Paren(l) ELSE l
             rs == IF needs_parentheses(node.right, node.type, FALSE)
                   THEN Paren(r) ELSE r
         IN ls \o " " \o node.operator \o " " \o rs

(***************************************************************************)
(* formula.py : Formula objects                                            *)
(***************************************************************************)
RECURSIVE LStrip(_)
LStrip(s) == IF s # "" /\ IsSpace(Char(s, 1)) THEN LStrip(SubSeq(s, 2, Len(s))) ELSE s

RECURSIVE RStrip(_)
RStrip(s) ==
    IF s # "" /\ IsSpace(Char(s, Len(s))) THEN RStrip(SubSeq(s, 1, Len(s) - 1)) ELSE s

\* str.strip()
Strip(s) == RStrip(LStrip(s))

\* Index after the run of white space that starts at k.
RECURSIVE SkipSpaces(_, _)
SkipSpaces(s, k) ==
    IF k <= Len(s) /\ IsSpace(Char(s, k)) THEN SkipSpaces(s, k + 1) ELSE k

\* re.sub(r'\s*PAT\s*', rep, s) from position k on, for a pattern PAT that
\* starts with no white space: leftmost, non-overlapping matches.
RECURSIVE SubArrow(_, _, _, _)
SubArrow(s, pat, rep, k) ==
    IF k > Len(s) THEN ""
    ELSE LET j == SkipSpaces(s, k) IN
         IF j + Len(pat) - 1 <= Len(s) /\ SubSeq(s, j, j + Len(pat) - 1) = pat
         THEN rep \o SubArrow(s, pat, rep, SkipSpaces(s, j + Len(pat)))
         ELSE Char(s, k) \o SubArrow(s, pat, rep, k + 1)

\* s.replace('&', AND).replace('|', OR).replace('^', XOR)
RECURSIVE ReplaceAscii(_)
ReplaceAscii(s) ==
    IF s = "" THEN ""
    ELSE LET c == Char(s, 1) IN
         (IF c = "&" THEN "a" ELSE IF c = "|" THEN "o" ELSE IF c = "^" THEN "x" ELSE c)
         \o ReplaceAscii(SubSeq(s, 2, Len(s)))

\* re.sub(r'\s+', ' ', s)
RECURSIVE CollapseSpaces(_, _)
CollapseSpaces(s, k) ==
    IF k > Len(s) THEN ""
    ELSE IF IsSpace(Char(s, k)) THEN " " \o CollapseSpaces(s, SkipSpaces(s, k))
    ELSE Char(s, k) \o CollapseSpaces(s, k + 1)

\* Formula.__str__ on a Formula with the given original_string and ast: the
\* original text with the ASCII operators <->, ->, &, |, ^ canonicalised and
\* white space collapsed; the pretty-printer when there is no original text.
Formula_str(original_string, ast) ==
    IF original_string # ""
    THEN LET s1 == SubArrow(original_string, "<->", " e ", 1)
             s2 == SubArrow(s1, "->", " i ", 1)
             s3 == ReplaceAscii(s2)
         IN Strip(CollapseSpaces(s3, 1))
    ELSE to_string(ast)

\* Formula.__init__: a Formula is its original_string and its ast.  An ast of
\* ErrNode stands for the ValueError raised by the constructor.  Both
\* attributes are never assigned again, so str(formula) is a function of the
\* object: it is kept with it (field str) instead of being recomputed.
FormulaOf(original_string, ast) ==
    [original_string |-> original_string, ast |-> ast,
     str |-> IF ast = ErrNode THEN "" ELSE Formula_str(original_string, ast)]

FormulaFrom(original_string) ==
    IF original_string = "" THEN FormulaOf(original_string, ErrNode)
    ELSE FormulaOf(original_string, Parse(original_string))

Formula(expression_string) == FormulaFrom(Strip(expression_string))

\* The value None where a Formula is expected.
None == [original_string |-> "", ast |-> NoneNode, str |-> ""]

IsFormula(f) == f.ast.type \notin {"ERR", "NONE"}

Raised(f) == f.ast.type = "ERR"

\* str(formula)
FormulaStr(f) == f.str

\* Formula._ast_equal / InferenceRule._formulas_equal
RECURSIVE formulas_equal(_, _)
formulas_equal(ast1, ast2) ==
    IF ast1.type # ast2.type THEN FALSE
    ELSE IF ast1.type = "PROP" THEN ast1.value = ast2.value
    ELSE IF ast1.type = "NOT" THEN formulas_equal(ast1.operand, ast2.operand)
    ELSE formulas_equal(ast1.left, ast2.left) /\ formulas_equal(ast1.right, ast2.right)

\* __eq__ comparing the original texts of the two formulas.
FormulaEq_textual(f, g) == f.original_string = g.original_string

\* Formula.__eq__
FormulaEq(f, g) == formulas_equal(f.ast, g.ast)

\* Formula._collect_atomic_propositions
RECURSIVE atomic_propositions(_)
atomic_propositions(node) ==
    IF node.type = "PROP" THEN {node.value}
    ELSE IF node.type = "NOT" THEN atomic_propositions(node.operand)
    ELSE atomic_propositions(node.left) \cup atomic_propositions(node.right)

\* _evaluate_node with the implication read as its converse.
RECURSIVE evaluate_node_converse(_, _)
evaluate_node_converse(node, truth_values) ==
    IF node.type = "PROP" THEN truth_values[node.value]
    ELSE IF node.type = "NOT" THEN ~evaluate_node_converse(node.operand, truth_values)
    ELSE LET left_val == evaluate_node_converse(node.left, truth_values)
             right_val == evaluate_node_converse(node.right, truth_values)
         IN CASE node.type = "AND" -> left_val /\ right_val
              [] node.type = "OR" -> left_val \/ right_val
              [] node.type = "IMPLIES" -> left_val \/ (~right_val)
              [] node.type = "IFF" -> left_val = right_val
              [] node.type = "XOR" -> left_val # right_val
              [] node.type = "NAND" -> ~(left_val /\ right_val)
              [] node.type = "NOR" -> ~(left_val \/ right_val)

\* Formula._evaluate_node
RECURSIVE evaluate_node(_, _)
evaluate_node(node, truth_values) ==
    IF node.type = "PROP" THEN truth_values[node.value]
    ELSE IF node.type = "NOT" THEN ~evaluate_node(node.operand, truth_values)
    ELSE LET left_val == evaluate_node(node.left, truth_values)
             right_val == evaluate_node(node.right, truth_values)
         IN CASE node.type = "AND" -> left_val /\ right_val
              [] node.type = "OR" -> left_val \/ right_val
              [] node.type = "IMPLIES" -> (~left_val) \/ right_val
              [] node.type = "IFF" -> left_val = right_val
              [] node.type = "XOR" -> left_val # right_val
              [] node.type = "NAND" -> ~(left_val /\ right_val)
              [] node.type = "NOR" -> ~(left_val \/ right_val)

\* What a call returns that yields a boolean or raises ValueError.
Value(v) == [raised |-> FALSE, value |-> v]

RaisedValue == [raised |-> TRUE, value |-> FALSE]

\* evaluate refusing an assignment that names a proposition the formula
\* does not reference.
evaluate_exact(formula, truth_values) ==
    IF formula.ast = NoneNode THEN RaisedValue
    ELSE IF DOMAIN truth_values # atomic_propositions(formula.ast)
    THEN RaisedValue
    ELSE Value(evaluate_node(formula.ast, truth_values))

\* Formula.evaluate: truth_values is a function from the propositions given
\* to booleans.
evaluate(formula, truth_values) ==
    IF formula.ast = NoneNode THEN RaisedValue
    ELSE IF \E prop \in atomic_propositions(formula.ast) : prop \notin DOMAIN truth_values
    THEN RaisedValue
    ELSE Value(evaluate_node(formula.ast, truth_values))

(***************************************************************************)
(* truth_table.py and validator.py.  A cell of a row is "True", "False" or *)
(* "None", the Python value stored there.                                  *)
(***************************************************************************)
Alphabet ==
    <<"A", "B", "C", "D", "E", "F", "G", "H", "I", "J", "K", "L", "M",
      "N", "O", "P", "Q", "R", "S", "T", "U", "V", "W", "X", "Y", "Z">>

\* sorted(list(all_props))
sorted(props) == SelectSeq(Alphabet, LAMBDA c : c \in props)

\* list(itertools.product([True, False], repeat=n)): the last place varies
\* fastest.
\* product([False, True], repeat=n)
RECURSIVE product_false_first(_)
product_false_first(n) ==
    IF n = 0 THEN << <<>> >>
    ELSE LET shorter == product_false_first(n - 1)
         IN [r \in 1..(2 * Len(shorter)) |->
                Append(shorter[(r + 1) \div 2], r % 2 = 0)]

RECURSIVE product(_)
product(n) ==
    IF n = 0 THEN << <<>> >>
    ELSE LET shorter == product(n - 1)
         IN [r \in 1..(2 * Len(shorter)) |->
                Append(shorter[(r + 1) \div 2], r % 2 = 1)]

\* dict(zip(props, values))
Zip(props, values) ==
    [p \in {props[k] : k \in DOMAIN props} |->
        values[CHOOSE k \in DOMAIN props : props[k] = p]]

\* formula.get_atomic_propositions() of every formula of a list, united.
AllProps(formulas) ==
    UNION {atomic_propositions(formulas[k].ast) : k \in DOMAIN formulas}

PyBool(b) == IF b THEN "True" ELSE "False"

\* TruthTable.__init__ and the state left by TruthTable.clear()
EmptyTable ==
    [headers |-> <<>>, rows |-> <<>>, formulas |-> <<>>, atomic_props |-> <<>>,
     is_generated |-> FALSE]

\* TruthTable._generate_headers
generate_headers(self) ==
    [self EXCEPT !.headers =
        self.atomic_props \o [k \in DOMAIN self.formulas |-> FormulaStr(self.formulas[k])]]

\* The cell _add_row stores for one formula.
FormulaCell(formula, truth_assignment) ==
    LET value == evaluate(formula, truth_assignment)
    IN IF value.raised THEN "None" ELSE PyBool(value.value)

\* TruthTable._add_row
add_row(self, truth_assignment) ==
    LET row == [k \in DOMAIN self.atomic_props |->
                   IF self.atomic_props[k] \in DOMAIN truth_assignment
                   THEN PyBool(truth_assignment[self.atomic_props[k]])
                   ELSE "True"]
               \o [k \in DOMAIN self.formulas |->
                      FormulaCell(self.formulas[k], truth_assignment)]
    IN [self EXCEPT !.rows = Append(@, row)]

\* The for loop of generate_from_formulas over the product.
RECURSIVE AddRows(_, _, _)
AddRows(self, combinations, k) ==
    IF k > Len(combinations) THEN self
    ELSE AddRows(add_row(self, Zip(self.atomic_props, combinations[k])),
                 combinations, k + 1)

\* generate_from_formulas without its call of self.clear().
generate_from_formulas_accumulating(self, formulas) ==
    IF formulas = <<>>
    THEN [self |-> self, success |-> FALSE, message |-> "No formulas provided"]
    ELSE LET s1 == [self EXCEPT !.formulas = formulas,
                                !.atomic_props = sorted(AllProps(formulas))]
             s2 == generate_headers(s1)
             s3 == IF s1.atomic_props = <<>>
                   THEN add_row(s2, <<>>)
                   ELSE AddRows(s2, product(Len(s1.atomic_props)), 1)
         IN [self |-> [s3 EXCEPT !.is_generated = TRUE],
             success |-> TRUE,
             message |-> "Generated truth table with " \o ToString(Len(s3.rows))
                         \o " rows"]

\* TruthTable.generate_from_formulas: the table left and the returned pair.
generate_from_formulas(self, formulas) ==
    IF formulas = <<>>
    THEN [self |-> self, success |-> FALSE, message |-> "No formulas provided"]
    ELSE LET s1 == [EmptyTable EXCEPT !.formulas = formulas,
                                      !.atomic_props = sorted(AllProps(formulas))]
             s2 == generate_headers(s1)
             s3 == IF s1.atomic_props = <<>>
                   THEN add_row(s2, <<>>)
                   ELSE AddRows(s2, product(Len(s1.atomic_props)), 1)
         IN [self |-> [s3 EXCEPT !.is_generated = TRUE],
             success |-> TRUE,
             message |-> "Generated truth table with " \o ToString(Len(s3.rows))
                         \o " rows"]

\* TruthTable.is_tautology; formula_index counts from 0 as in the source.
is_tautology(self, formula_index) ==
    IF ~self.is_generated \/ formula_index >= Len(self.formulas) THEN FALSE
    ELSE LET col_index == Len(self.atomic_props) + formula_index
         IN \A r \in DOMAIN self.rows : self.rows[r][col_index + 1] = "True"

\* TruthTable.is_contradiction
is_contradiction(self, formula_index) ==
    IF ~self.is_generated \/ formula_index >= Len(self.formulas) THEN FALSE
    ELSE LET col_index == Len(self.atomic_props) + formula_index
         IN \A r \in DOMAIN self.rows : self.rows[r][col_index + 1] = "False"

\* The orders list(a_set) can yield for a set of propositions: the iteration
\* order of a set of strings is not fixed by the program.
Orders(props) ==
    {order \in [1..Cardinality(props) -> props] :
        \A j, k \in 1..Cardinality(props) : order[j] = order[k] => j = k}

\* FormulaValidator.check_tautology; props is list(formula.get_atomic_propositions()).
check_tautology(formula, props) ==
    IF props = <<>>
    THEN LET direct == evaluate(formula, <<>>)
         IN ~direct.raised /\ direct.value
    ELSE \A k \in DOMAIN product(Len(props)) :
            LET value == evaluate(formula, Zip(props, product(Len(props))[k]))
            IN ~value.raised /\ value.value

\* check_contradiction answering "not a tautology".
check_contradiction_not_tautology(formula, props) == ~check_tautology(formula, props)

\* FormulaValidator.check_contradiction
check_contradiction(formula, props) ==
    IF props = <<>>
    THEN LET direct == evaluate(formula, <<>>)
         IN ~direct.raised /\ ~direct.value
    ELSE \A k \in DOMAIN product(Len(props)) :
            LET value == evaluate(formula, Zip(props, product(Len(props))[k]))
            IN ~value.raised /\ ~value.value

\* FormulaValidator.get_formula_type; props1 and props2 are the lists the two
\* checks make of the propositions.
get_formula_type(formula, props1, props2) ==
    IF check_tautology(formula, props1) THEN "tautology"
    ELSE IF check_contradiction(formula, props2) THEN "contradiction"
    ELSE "contingent"

\* The value None where find_counter_example returns a dict.
NoAssignment == [found |-> FALSE, assignment |-> <<>>]

\* The test of the loop body without its condition on the conclusion.
IsCounterExample_premises_only(premise_list, conclusion_formula, truth_assignment) ==
    \A k \in DOMAIN premise_list :
        LET premise_value == evaluate(premise_list[k], truth_assignment)
        IN ~premise_value.raised /\ premise_value.value

\* The body of the for loop of find_counter_example reaches its return.
IsCounterExample(premise_list, conclusion_formula, truth_assignment) ==
    LET values == [k \in DOMAIN premise_list |-> evaluate(premise_list[k], truth_assignment)]
        stops == {k \in DOMAIN premise_list : values[k].raised \/ ~values[k].value}
        conclusion_value == evaluate(conclusion_formula, truth_assignment)
    IN /\ stops = {}
       /\ ~conclusion_value.raised
       /\ ~conclusion_value.value

\* FormulaValidator.find_counter_example; props_list is list(all_props).
find_counter_example(premise_list, conclusion_formula, props_list) ==
    LET combinations == product(Len(props_list))
        hits == {k \in DOMAIN combinations :
                    IsCounterExample(premise_list, conclusion_formula,
                                     Zip(props_list, combinations[k]))}
    IN IF hits = {} THEN NoAssignment
       ELSE [found |-> TRUE,
             assignment |-> Zip(props_list,
                                combinations[CHOOSE k \in hits : \A m \in hits : k <= m])]

\* FormulaValidator.validate_premises_and_conclusion; tautology_props is the
\* list(props) of check_tautology and props_list its own list(all_props).
validate_premises_and_conclusion(premise_list, conclusion_formula, tautology_props, props_list) ==
    IF premise_list = <<>>
    THEN [is_valid |-> FALSE, message |-> "At least one premise is required"]
    ELSE IF conclusion_formula = None
    THEN [is_valid |-> FALSE, message |-> "Conclusion is required"]
    ELSE IF check_tautology(conclusion_formula, tautology_props)
    THEN [is_valid |-> TRUE, message |-> "Warning: Conclusion is a tautology (always true)"]
    ELSE LET combinations == product(Len(props_list))
             has_valid_assignment ==
                 \E k \in DOMAIN combinations :
                    \A m \in DOMAIN premise_list :
                       LET value == evaluate(premise_list[m], Zip(props_list, combinations[k]))
                       IN ~value.raised /\ value.value
         IN IF ~has_valid_assignment
            THEN [is_valid |-> FALSE,
                  message |-> "Premises are contradictory (no valid truth assignment)"]
            ELSE [is_valid |-> TRUE, message |-> "Valid premises and conclusion"]

(***************************************************************************)
(* inference_rules.py : the 19 rules.  X_can_apply(formulas) is the rule's *)
(* can_apply; X_apply(formulas, ...) is its apply and yields a Formula,    *)
(* None, or a Formula with ErrNode when the constructor raises.            *)
(* formulas[1], formulas[2], formulas[3] are formulas[0..2] of the source. *)
(***************************************************************************)
\* f"NOT{s}" if node['type'] == 'PROP' else f"NOT({s})"
NegStr(s, node) == IF node.type = "PROP" THEN "n" \o s ELSE "n" \o Paren(s)

\* 1. Modus Ponens
ModusPonens_can_apply(formulas) ==
    /\ Len(formulas) = 2
    /\ \E k \in 1..2 :
          LET f1 == formulas[k]
              f2 == formulas[3 - k]
          IN f2.ast.type = "IMPLIES" /\ formulas_equal(f1.ast, f2.ast.left)

ModusPonens_apply(formulas) ==
    IF ~ModusPonens_can_apply(formulas) THEN None
    ELSE IF formulas[2].ast.type = "IMPLIES"
            /\ formulas_equal(formulas[1].ast, formulas[2].ast.left)
         THEN Formula(to_string(formulas[2].ast.right))
    ELSE IF formulas[1].ast.type = "IMPLIES"
            /\ formulas_equal(formulas[2].ast, formulas[1].ast.left)
         THEN Formula(to_string(formulas[1].ast.right))
    ELSE None

\* 2. Modus Tollens
MT_match(f1, f2) ==
    /\ f1.ast.type = "IMPLIES"
    /\ f2.ast.type = "NOT"
    /\ formulas_equal(f2.ast.operand, f1.ast.right)

ModusTollens_can_apply(formulas) ==
    /\ Len(formulas) = 2
    /\ \E k \in 1..2 : MT_match(formulas[k], formulas[3 - k])

ModusTollens_apply(formulas) ==
    IF ~ModusTollens_can_apply(formulas) THEN None
    ELSE IF MT_match(formulas[1], formulas[2])
         THEN Formula(NegStr(to_string(formulas[1].ast.left), formulas[1].ast.left))
    ELSE IF MT_match(formulas[2], formulas[1])
         THEN Formula(NegStr(to_string(formulas[2].ast.left), formulas[2].ast.left))
    ELSE None

\* 3. Hypothetical Syllogism
HypotheticalSyllogism_can_apply(formulas) ==
    /\ Len(formulas) = 2
    /\ formulas[1].ast.type = "IMPLIES"
    /\ formulas[2].ast.type = "IMPLIES"
    /\ \/ formulas_equal(formulas[1].ast.right, formulas[2].ast.left)
       \/ formulas_equal(formulas[2].ast.right, formulas[1].ast.left)

HypotheticalSyllogism_apply(formulas) ==
    IF ~HypotheticalSyllogism_can_apply(formulas) THEN None
    ELSE LET f1 == formulas[1]
             f2 == formulas[2]
             fwd == formulas_equal(f1.ast.right, f2.ast.left)
             antecedent == IF fwd THEN to_string(f1.ast.left) ELSE to_string(f2.ast.left)
             consequent == IF fwd THEN to_string(f2.ast.right) ELSE to_string(f1.ast.right)
         IN Formula(antecedent \o " i " \o consequent)

\* 4. Disjunctive Syllogism
DS_match(f1, f2) == f1.ast.type = "OR" /\ f2.ast.type = "NOT"

DS_hit(f1, f2) ==
    /\ DS_match(f1, f2)
    /\ \/ formulas_equal(f2.ast.operand, f1.ast.left)
       \/ formulas_equal(f2.ast.operand, f1.ast.right)

DisjunctiveSyllogism_can_apply(formulas) ==
    /\ Len(formulas) = 2
    /\ \E k \in 1..2 : DS_hit(formulas[k], formulas[3 - k])

\* The body of the loop of apply for one order: the returned formula.
DS_result(f1, f2) ==
    IF formulas_equal(f2.ast.operand, f1.ast.left)
    THEN Formula(to_string(f1.ast.right))
    ELSE Formula(to_string(f1.ast.left))

DisjunctiveSyllogism_apply(formulas) ==
    IF ~DisjunctiveSyllogism_can_apply(formulas) THEN None
    ELSE IF DS_hit(formulas[1], formulas[2]) THEN DS_result(formulas[1], formulas[2])
    ELSE IF DS_hit(formulas[2], formulas[1]) THEN DS_result(formulas[2], formulas[1])
    ELSE None

\* 5. Conjunction Introduction
ConjunctionIntroduction_can_apply(formulas) == Len(formulas) = 2

ConjunctionIntroduction_apply(formulas) ==
    IF ~ConjunctionIntroduction_can_apply(formulas) THEN None
    ELSE LET wrap(f) == IF f.ast.type \in {"IMPLIES", "IFF", "OR", "XOR"}
                        THEN Paren(FormulaStr(f)) ELSE FormulaStr(f)
         IN Formula(wrap(formulas[1]) \o " a " \o wrap(formulas[2]))

\* 6. Conjunction Elimination
ConjunctionElimination_can_apply(formulas) ==
    Len(formulas) = 1 /\ formulas[1].ast.type = "AND"

ConjunctionElimination_apply(formulas, which) ==
    IF ~ConjunctionElimination_can_apply(formulas) THEN None
    ELSE IF which = "left" THEN Formula(to_string(formulas[1].ast.left))
    ELSE Formula(to_string(formulas[1].ast.right))

\* 7. Addition
Addition_can_apply(formulas) == Len(formulas) = 1

Addition_apply(formulas, added_formula_str) ==
    IF ~Addition_can_apply(formulas) THEN None
    ELSE LET f1_str == IF formulas[1].ast.type \in {"IMPLIES", "IFF"}
                       THEN Paren(FormulaStr(formulas[1]))
                       ELSE FormulaStr(formulas[1])
             added == Formula(added_formula_str)
             added_str == IF ~Raised(added) /\ added.ast.type \in {"IMPLIES", "IFF"}
                          THEN Paren(added_formula_str)
                          ELSE added_formula_str
         IN Formula(f1_str \o " o " \o added_str)

\* 8. Simplification
Simplification_can_apply(formulas) == ConjunctionElimination_can_apply(formulas)

Simplification_apply(formulas, which) == ConjunctionElimination_apply(formulas, which)

\* 9. Biconditional Introduction
BiconditionalIntroduction_can_apply(formulas) ==
    /\ Len(formulas) = 2
    /\ formulas[1].ast.type = "IMPLIES"
    /\ formulas[2].ast.type = "IMPLIES"
    /\ formulas_equal(formulas[1].ast.left, formulas[2].ast.right)
    /\ formulas_equal(formulas[1].ast.right, formulas[2].ast.left)

BiconditionalIntroduction_apply(formulas) ==
    IF ~BiconditionalIntroduction_can_apply(formulas) THEN None
    ELSE Formula(to_string(formulas[1].ast.left) \o " e "
                 \o to_string(formulas[1].ast.right))

\* 10. Biconditional Elimination
BiconditionalElimination_can_apply(formulas) ==
    Len(formulas) = 1 /\ formulas[1].ast.type = "IFF"

BiconditionalElimination_apply(formulas, direction) ==
    IF ~BiconditionalElimination_can_apply(formulas) THEN None
    ELSE LET left == to_string(formulas[1].ast.left)
             right == to_string(formulas[1].ast.right)
         IN IF direction = "forward" THEN Formula(left \o " i " \o right)
            ELSE Formula(right \o " i " \o left)

\* 11. Double Negation
DoubleNegation_can_apply(formulas) == Len(formulas) = 1

DoubleNegation_apply(formulas, mode) ==
    IF ~DoubleNegation_can_apply(formulas) THEN None
    ELSE LET f == formulas[1] IN
         IF mode = "eliminate"
         THEN IF f.ast.type = "NOT" /\ f.ast.operand.type = "NOT"
              THEN Formula(to_string(f.ast.operand.operand))
              ELSE None
         ELSE IF f.ast.type = "PROP" THEN Formula("nn" \o FormulaStr(f))
         ELSE Formula("nn" \o Paren(FormulaStr(f)))

\* 12. De Morgan's Law 1
DeMorgansLaw1_can_apply(formulas) ==
    /\ Len(formulas) = 1
    /\ LET f == formulas[1] IN
       IF f.ast.type = "NOT" THEN f.ast.operand.type = "AND"
       ELSE IF f.ast.type = "OR"
            THEN f.ast.left.type = "NOT" /\ f.ast.right.type = "NOT"
       ELSE FALSE

DeMorgansLaw1_apply(formulas) ==
    IF ~DeMorgansLaw1_can_apply(formulas) THEN None
    ELSE LET f == formulas[1] IN
         IF f.ast.type = "NOT"
         THEN LET conj == f.ast.operand IN
              Formula(NegStr(to_string(conj.left), conj.left) \o " o "
                      \o NegStr(to_string(conj.right), conj.right))
         ELSE IF f.ast.type = "OR"
              THEN Formula("n(" \o to_string(f.ast.left.operand) \o " a "
                           \o to_string(f.ast.right.operand) \o ")")
         ELSE None

\* 13. De Morgan's Law 2
DeMorgansLaw2_can_apply(formulas) ==
    /\ Len(formulas) = 1
    /\ LET f == formulas[1] IN
       IF f.ast.type = "NOT" THEN f.ast.operand.type = "OR"
       ELSE IF f.ast.type = "AND"
            THEN f.ast.left.type = "NOT" /\ f.ast.right.type = "NOT"
       ELSE FALSE

DeMorgansLaw2_apply(formulas) ==
    IF ~DeMorgansLaw2_can_apply(formulas) THEN None
    ELSE LET f == formulas[1] IN
         IF f.ast.type = "NOT"
         THEN LET disj == f.ast.operand IN
              Formula(NegStr(to_string(disj.left), disj.left) \o " a "
                      \o NegStr(to_string(disj.right), disj.right))
         ELSE IF f.ast.type = "AND"
              THEN Formula("n(" \o to_string(f.ast.left.operand) \o " o "
                           \o to_string(f.ast.right.operand) \o ")")
         ELSE None

\* 14. Transposition
Transposition_can_apply(formulas) ==
    Len(formulas) = 1 /\ formulas[1].ast.type = "IMPLIES"

Transposition_apply(formulas) ==
    IF ~Transposition_can_apply(formulas) THEN None
    ELSE LET implication == formulas[1].ast
             antecedent == to_string(implication.left)
             consequent == to_string(implication.right)
         IN IF implication.left.type = "NOT" /\ implication.right.type = "NOT"
            THEN Formula(to_string(implication.right.operand) \o " i "
                         \o to_string(implication.left.operand))
            ELSE Formula(NegStr(consequent, implication.right) \o " i "
                         \o NegStr(antecedent, implication.left))

\* 15. Implication
Implication_can_apply(formulas) ==
    /\ Len(formulas) = 1
    /\ LET f == formulas[1] IN
       \/ f.ast.type = "IMPLIES"
       \/ (f.ast.type = "OR" /\ f.ast.left.type = "NOT")

Implication_apply(formulas) ==
    IF ~Implication_can_apply(formulas) THEN None
    ELSE LET f == formulas[1] IN
         IF f.ast.type = "IMPLIES"
         THEN Formula(NegStr(to_string(f.ast.left), f.ast.left) \o " o "
                      \o to_string(f.ast.right))
         ELSE IF f.ast.type = "OR" /\ f.ast.left.type = "NOT"
              THEN Formula(to_string(f.ast.left.operand) \o " i "
                           \o to_string(f.ast.right))
         ELSE None

\* 16. Exportation
Exportation_can_apply(formulas) ==
    /\ Len(formulas) = 1
    /\ formulas[1].ast.type = "IMPLIES"
    /\ \/ formulas[1].ast.right.type = "IMPLIES"
       \/ formulas[1].ast.left.type = "AND"

Exportation_apply(formulas) ==
    IF ~Exportation_can_apply(formulas) THEN None
    ELSE LET f == formulas[1] IN
         IF f.ast.right.type = "IMPLIES"
         THEN Formula("(" \o to_string(f.ast.left) \o " a "
                      \o to_string(f.ast.right.left) \o ") i "
                      \o to_string(f.ast.right.right))
         ELSE IF f.ast.left.type = "AND"
              THEN Formula(to_string(f.ast.left.left) \o " i ("
                           \o to_string(f.ast.left.right) \o " i "
                           \o to_string(f.ast.right) \o ")")
         ELSE None

\* 17. Resolution
Side(ast, which) == IF which = "left" THEN ast.left ELSE ast.right

Other(which) == IF which = "left" THEN "right" ELSE "left"

\* The (i, j) pairs in the order of the nested loops of can_apply and apply.
RES_pairs == << <<"left", "left">>, <<"left", "right">>,
                <<"right", "left">>, <<"right", "right">> >>

\* lit1 is the negation of lit2, or lit2 the negation of lit1.
RES_complementary(lit1, lit2) ==
    \/ (lit1.type = "NOT" /\ formulas_equal(lit1.operand, lit2))
    \/ (lit2.type = "NOT" /\ formulas_equal(lit2.operand, lit1))

Resolution_can_apply(formulas) ==
    /\ Len(formulas) = 2
    /\ formulas[1].ast.type = "OR"
    /\ formulas[2].ast.type = "OR"
    /\ \E k \in 1..4 :
          RES_complementary(Side(formulas[1].ast, RES_pairs[k][1]),
                            Side(formulas[2].ast, RES_pairs[k][2]))

Resolution_apply(formulas) ==
    IF ~Resolution_can_apply(formulas) THEN None
    ELSE LET f1 == formulas[1]
             f2 == formulas[2]
             hits == {k \in 1..4 :
                        RES_complementary(Side(f1.ast, RES_pairs[k][1]),
                                          Side(f2.ast, RES_pairs[k][2]))}
             first == CHOOSE k \in hits : \A m \in hits : k <= m
             q == to_string(Side(f1.ast, Other(RES_pairs[first][1])))
             r == to_string(Side(f2.ast, Other(RES_pairs[first][2])))
         IN Formula(q \o " o " \o r)

\* 18. Absorption
Absorption_can_apply(formulas) ==
    Len(formulas) = 1 /\ formulas[1].ast.type = "IMPLIES"

Absorption_apply(formulas) ==
    IF ~Absorption_can_apply(formulas) THEN None
    ELSE LET implication == formulas[1].ast
             p == to_string(implication.left)
         IN IF implication.right.type = "AND"
            THEN LET conj == implication.right IN
                 IF formulas_equal(conj.left, implication.left)
                 THEN Formula(p \o " i " \o to_string(conj.right))
                 ELSE IF formulas_equal(conj.right, implication.left)
                      THEN Formula(p \o " i " \o to_string(conj.left))
                 ELSE None
            ELSE Formula(p \o " i (" \o p \o " a "
                         \o to_string(implication.right) \o ")")

\* 19. Constructive Dilemma
\* The implications list and the disjunction (the last OR-formula, None when
\* there is none) collected by the loop over the inputs.
CD_implications(formulas) == SelectSeq(formulas, LAMBDA f : f.ast.type = "IMPLIES")

CD_disjunction(formulas) ==
    LET ors == SelectSeq(formulas, LAMBDA f : f.ast.type = "OR")
    IN IF ors = <<>> THEN None ELSE ors[Len(ors)]

ConstructiveDilemma_can_apply(formulas) ==
    /\ Len(formulas) = 3
    /\ Len(CD_implications(formulas)) = 2
    /\ CD_disjunction(formulas) # None
    /\ LET imp1 == CD_implications(formulas)[1]
           imp2 == CD_implications(formulas)[2]
           disj_left == CD_disjunction(formulas).ast.left
           disj_right == CD_disjunction(formulas).ast.right
       IN \/ (formulas_equal(disj_left, imp1.ast.left)
              /\ formulas_equal(disj_right, imp2.ast.left))
          \/ (formulas_equal(disj_left, imp2.ast.left)
              /\ formulas_equal(disj_right, imp1.ast.left))

ConstructiveDilemma_apply(formulas) ==
    IF ~ConstructiveDilemma_can_apply(formulas) THEN None
    ELSE LET imp1 == CD_implications(formulas)[1]
             imp2 == CD_implications(formulas)[2]
             disjunction == CD_disjunction(formulas)
         IN IF formulas_equal(disjunction.ast.left, imp1.ast.left)
               /\ formulas_equal(disjunction.ast.right, imp2.ast.left)
            THEN Formula(to_string(imp1.ast.right) \o " o " \o to_string(imp2.ast.right))
            ELSE Formula(to_string(imp2.ast.right) \o " o " \o to_string(imp1.ast.right))

(***************************************************************************)
(* inference_rules.py : the catalog                                        *)
(***************************************************************************)
\* get_all_rules(): the rules in catalog order.
Rule(name, abbreviation) == [name |-> name, abbreviation |-> abbreviation]

get_all_rules ==
    << Rule("Modus Ponens", "MP"),
       Rule("Modus Tollens", "MT"),
       Rule("Hypothetical Syllogism", "HS"),
       Rule("Disjunctive Syllogism", "DS"),
       Rule("Conjunction Introduction", "CI"),
       Rule("Conjunction Elimination", "CE"),
       Rule("Addition", "ADD"),
       Rule("Simplification", "SIMP"),
       Rule("Biconditional Introduction", "BI"),
       Rule("Biconditional Elimination", "BE"),
       Rule("Double Negation", "DN"),
       Rule("De Morgan's Law 1", "DML1"),
       Rule("De Morgan's Law 2", "DML2"),
       Rule("Transposition", "TRANS"),
       Rule("Implication", "IMPL"),
       Rule("Exportation", "EXP"),
       Rule("Resolution", "RES"),
       Rule("Absorption", "ABS"),
       Rule("Constructive Dilemma", "CD") >>

NoRule == Rule("", "")

\* rule.can_apply(formulas), dispatched on the rule's abbreviation.
can_apply(rule, formulas) ==
    CASE rule.abbreviation = "MP" -> ModusPonens_can_apply(formulas)
      [] rule.abbreviation = "MT" -> ModusTollens_can_apply(formulas)
      [] rule.abbreviation = "HS" -> HypotheticalSyllogism_can_apply(formulas)
      [] rule.abbreviation = "DS" -> DisjunctiveSyllogism_can_apply(formulas)
      [] rule.abbreviation = "CI" -> ConjunctionIntroduction_can_apply(formulas)
      [] rule.abbreviation = "CE" -> ConjunctionElimination_can_apply(formulas)
      [] rule.abbreviation = "ADD" -> Addition_can_apply(formulas)
      [] rule.abbreviation = "SIMP" -> Simplification_can_apply(formulas)
      [] rule.abbreviation = "BI" -> BiconditionalIntroduction_can_apply(formulas)
      [] rule.abbreviation = "BE" -> BiconditionalElimination_can_apply(formulas)
      [] rule.abbreviation = "DN" -> DoubleNegation_can_apply(formulas)
      [] rule.abbreviation = "DML1" -> DeMorgansLaw1_can_apply(formulas)
      [] rule.abbreviation = "DML2" -> DeMorgansLaw2_can_apply(formulas)
      [] rule.abbreviation = "TRANS" -> Transposition_can_apply(formulas)
      [] rule.abbreviation = "IMPL" -> Implication_can_apply(formulas)
      [] rule.abbreviation = "EXP" -> Exportation_can_apply(formulas)
      [] rule.abbreviation = "RES" -> Resolution_can_apply(formulas)
      [] rule.abbreviation = "ABS" -> Absorption_can_apply(formulas)
      [] rule.abbreviation = "CD" -> ConstructiveDilemma_can_apply(formulas)

\* kwargs.get(key, default): keyword arguments are a record of the keys given.
Get(kwargs, key, default) == IF key \in DOMAIN kwargs THEN kwargs[key] ELSE default

\* rule.apply(formulas, ...) as apply_rule calls it: the keyword a rule takes
\* is read from kwargs with the default of apply_rule.
apply(rule, formulas, kwargs) ==
    CASE rule.abbreviation = "ADD" ->
            Addition_apply(formulas, Get(kwargs, "added_formula", "B"))
      [] rule.abbreviation = "CE" ->
            ConjunctionElimination_apply(formulas, Get(kwargs, "which", "left"))
      [] rule.abbreviation = "SIMP" ->
            Simplification_apply(formulas, Get(kwargs, "which", "left"))
      [] rule.abbreviation = "BE" ->
            BiconditionalElimination_apply(formulas, Get(kwargs, "direction", "forward"))
      [] rule.abbreviation = "DN" ->
            DoubleNegation_apply(formulas, Get(kwargs, "mode", "eliminate"))
      [] rule.abbreviation = "MP" -> ModusPonens_apply(formulas)
      [] rule.abbreviation = "MT" -> ModusTollens_apply(formulas)
      [] rule.abbreviation = "HS" -> HypotheticalSyllogism_apply(formulas)
      [] rule.abbreviation = "DS" -> DisjunctiveSyllogism_apply(formulas)
      [] rule.abbreviation = "CI" -> ConjunctionIntroduction_apply(formulas)
      [] rule.abbreviation = "BI" -> BiconditionalIntroduction_apply(formulas)
      [] rule.abbreviation = "DML1" -> DeMorgansLaw1_apply(formulas)
      [] rule.abbreviation = "DML2" -> DeMorgansLaw2_apply(formulas)
      [] rule.abbreviation = "TRANS" -> Transposition_apply(formulas)
      [] rule.abbreviation = "IMPL" -> Implication_apply(formulas)
      [] rule.abbreviation = "EXP" -> Exportation_apply(formulas)
      [] rule.abbreviation = "RES" -> Resolution_apply(formulas)
      [] rule.abbreviation = "ABS" -> Absorption_apply(formulas)
      [] rule.abbreviation = "CD" -> ConstructiveDilemma_apply(formulas)

\* str.lower() and str.upper() on the letters of rule names.
LowerOf ==
    [c \in UpperLetters |->
        CASE c = "A" -> "a" [] c = "B" -> "b" [] c = "C" -> "c" [] c = "D" -> "d"
          [] c = "E" -> "e" [] c = "F" -> "f" [] c = "G" -> "g" [] c = "H" -> "h"
          [] c = "I" -> "i" [] c = "J" -> "j" [] c = "K" -> "k" [] c = "L" -> "l"
          [] c = "M" -> "m" [] c = "N" -> "n" [] c = "O" -> "o" [] c = "P" -> "p"
          [] c = "Q" -> "q" [] c = "R" -> "r" [] c = "S" -> "s" [] c = "T" -> "t"
          [] c = "U" -> "u" [] c = "V" -> "v" [] c = "W" -> "w" [] c = "X" -> "x"
          [] c = "Y" -> "y" [] c = "Z" -> "z"]

RECURSIVE Lower(_)
Lower(s) ==
    IF s = "" THEN ""
    ELSE (IF Char(s, 1) \in UpperLetters THEN LowerOf[Char(s, 1)] ELSE Char(s, 1))
         \o Lower(SubSeq(s, 2, Len(s)))

RECURSIVE Upper(_)
Upper(s) ==
    IF s = "" THEN ""
    ELSE LET c == Char(s, 1)
             up == {u \in UpperLetters : LowerOf[u] = c}
         IN (IF up # {} THEN CHOOSE u \in up : TRUE ELSE c)
            \o Upper(SubSeq(s, 2, Len(s)))

\* The names of the catalog in lower case and the abbreviations in both cases.
LowerNames == [k \in DOMAIN get_all_rules |-> Lower(get_all_rules[k].name)]
LowerAbbreviations == [k \in DOMAIN get_all_rules |-> Lower(get_all_rules[k].abbreviation)]
UpperAbbreviations == [k \in DOMAIN get_all_rules |-> Upper(get_all_rules[k].abbreviation)]

\* The first rule of the catalog that satisfies hit, NoRule if there is none.
FirstRule(hit(_)) ==
    LET ks == {k \in DOMAIN get_all_rules : hit(k)}
    IN IF ks = {} THEN NoRule
       ELSE get_all_rules[CHOOSE k \in ks : \A m \in ks : k <= m]

\* The rule names callers pass to apply_rule: every abbreviation, a full
\* name, a lower-case spelling and a name that is no rule.
RuleNameInputs ==
    {get_all_rules[k].abbreviation : k \in DOMAIN get_all_rules}
    \cup {"Modus Ponens", "mp", "UNKNOWN"}

\* name.lower() and abbrev.upper() of the names in use, computed once.
LowerOfName ==
    [n \in RuleNameInputs \cup {get_all_rules[k].name : k \in DOMAIN get_all_rules}
        |-> Lower(n)]

UpperOfName == [n \in DOMAIN LowerOfName |-> Upper(n)]

get_rule_by_name(name) ==
    LET low == IF name \in DOMAIN LowerOfName THEN LowerOfName[name] ELSE Lower(name)
    IN FirstRule(LAMBDA k : LowerNames[k] = low \/ LowerAbbreviations[k] = low)

get_rule_by_abbreviation(abbrev) ==
    LET up == IF abbrev \in DOMAIN UpperOfName THEN UpperOfName[abbrev] ELSE Upper(abbrev)
    IN FirstRule(LAMBDA k : UpperAbbreviations[k] = up)

(***************************************************************************)
(* proof_system.py : ProofStep and ProofSystem.  An operation is an        *)
(* operator from the object (self: a record of the five attributes) and    *)
(* the arguments to the object after the call and the returned tuple.      *)
(***************************************************************************)
\* A step recorded without the steps it was derived from.
ProofStep_underived(index, formula, justification, dependencies) ==
    [index |-> index, formula |-> formula, justification |-> justification,
     dependencies |-> <<>>]

\* ProofStep.__init__
ProofStep(index, formula, justification, dependencies) ==
    [index |-> index, formula |-> formula, justification |-> justification,
     dependencies |-> dependencies]

NoStep == ProofStep(0, None, "", <<>>)

\* The returned tuple (success, message, new_step); new_step is NoStep where
\* the source returns None or a pair.
Ret(success, message, new_step) ==
    [success |-> success, message |-> message, new_step |-> new_step]

Out(self, ret) == [self |-> self, ret |-> ret]

\* ProofSystem.__init__ and the state left by clear()
EmptyProof ==
    [premises |-> <<>>, proof_steps |-> <<>>, conclusion |-> None,
     step_index |-> 1, is_complete |-> FALSE]

\* clear that goes on numbering where the cleared proof stopped.
clear_keeping_index(self) == [EmptyProof EXCEPT !.step_index = self.step_index]

clear(self) == EmptyProof

\* _check_if_complete: the value of is_complete after the call.
check_if_complete(self) ==
    IF self.conclusion = None THEN self.is_complete
    ELSE \E k \in DOMAIN self.proof_steps :
            FormulaStr(self.proof_steps[k].formula) = FormulaStr(self.conclusion)

\* add_premise taking the next index before it looks for the premise.
add_premise_counting(self, formula) ==
    IF \E k \in DOMAIN self.premises :
          FormulaStr(self.premises[k]) = FormulaStr(formula)
    THEN Out([self EXCEPT !.step_index = @ + 1],
             Ret(FALSE, "Premise already exists", NoStep))
    ELSE Out([self EXCEPT
                !.premises = Append(@, formula),
                !.proof_steps =
                    Append(@, ProofStep(self.step_index, formula, "Premise", <<>>)),
                !.step_index = @ + 1],
             Ret(TRUE, "Premise added successfully", NoStep))

add_premise(self, formula) ==
    IF \E k \in DOMAIN self.premises :
          FormulaStr(self.premises[k]) = FormulaStr(formula)
    THEN Out(self, Ret(FALSE, "Premise already exists", NoStep))
    ELSE Out([self EXCEPT
                !.premises = Append(@, formula),
                !.proof_steps =
                    Append(@, ProofStep(self.step_index, formula, "Premise", <<>>)),
                !.step_index = @ + 1],
             Ret(TRUE, "Premise added successfully", NoStep))

\* set_conclusion starting the derivation again from no steps.
set_conclusion_restarting(self, formula) ==
    LET s1 == [self EXCEPT !.conclusion = formula, !.is_complete = FALSE,
                           !.proof_steps = <<>>]
    IN Out([s1 EXCEPT !.is_complete = check_if_complete(s1)],
           Ret(TRUE, "Conclusion set successfully", NoStep))

set_conclusion(self, formula) ==
    LET s1 == [self EXCEPT !.conclusion = formula, !.is_complete = FALSE]
    IN Out([s1 EXCEPT !.is_complete = check_if_complete(s1)],
           Ret(TRUE, "Conclusion set successfully", NoStep))

\* The step with the given index, NoStep when there is none (the inner loop
\* of apply_rule).
StepWithIndex(self, idx) ==
    LET ks == {k \in DOMAIN self.proof_steps : self.proof_steps[k].index = idx}
    IN IF ks = {} THEN NoStep
       ELSE self.proof_steps[CHOOSE k \in ks : \A m \in ks : k <= m]

\* record_step justifying the new step by the abbreviation of the rule.
record_step_abbreviated(self, rule, step_indices, new_formula) ==
    IF Raised(new_formula)
    THEN Out(self, Ret(FALSE, "Error applying rule", NoStep))
    ELSE IF new_formula = None
    THEN Out(self, Ret(FALSE, "Rule application failed", NoStep))
    ELSE IF \E k \in DOMAIN self.proof_steps :
               FormulaStr(self.proof_steps[k].formula) = FormulaStr(new_formula)
    THEN Out(self, Ret(FALSE, "This formula already exists in the proof", NoStep))
    ELSE
    LET new_step == ProofStep(self.step_index, new_formula, rule.abbreviation,
                              step_indices)
        s1 == [self EXCEPT !.proof_steps = Append(@, new_step),
                           !.step_index = @ + 1]
    IN Out([s1 EXCEPT !.is_complete = check_if_complete(s1)],
           Ret(TRUE, "Applied " \o rule.name \o " successfully", new_step))

\* The part of apply_rule after rule.apply returned new_formula: the
\* except branch, the None check, the duplicate check and the new step.
record_step(self, rule, step_indices, new_formula) ==
    IF Raised(new_formula)
    THEN Out(self, Ret(FALSE, "Error applying rule", NoStep))
    ELSE IF new_formula = None
    THEN Out(self, Ret(FALSE, "Rule application failed", NoStep))
    ELSE IF \E k \in DOMAIN self.proof_steps :
               FormulaStr(self.proof_steps[k].formula) = FormulaStr(new_formula)
    THEN Out(self, Ret(FALSE, "This formula already exists in the proof", NoStep))
    ELSE
    LET new_step == ProofStep(self.step_index, new_formula, rule.name, step_indices)
        s1 == [self EXCEPT !.proof_steps = Append(@, new_step),
                           !.step_index = @ + 1]
    IN Out([s1 EXCEPT !.is_complete = check_if_complete(s1)],
           Ret(TRUE, "Applied " \o rule.name \o " successfully", new_step))

\* get_dependencies that leaves out the dependencies of the dependencies.
get_dependencies_direct(self, step_index_arg) ==
    LET target_step == StepWithIndex(self, step_index_arg)
    IN IF target_step = NoStep THEN {}
       ELSE {target_step.dependencies[k] : k \in DOMAIN target_step.dependencies}

RECURSIVE get_dependencies(_, _)
get_dependencies(self, step_index_arg) ==
    LET target_step == StepWithIndex(self, step_index_arg)
    IN IF target_step = NoStep THEN {}
       ELSE UNION {{target_step.dependencies[k]}
                   \cup get_dependencies(self, target_step.dependencies[k]) :
                      k \in DOMAIN target_step.dependencies}

apply_rule(self, rule_name, step_indices, kwargs) ==
    LET byname == get_rule_by_name(rule_name)
        rule == IF byname # NoRule THEN byname ELSE get_rule_by_abbreviation(rule_name)
    IN
    IF rule = NoRule
    THEN Out(self, Ret(FALSE, "Unknown rule: " \o rule_name, NoStep))
    ELSE
    LET missing == {k \in DOMAIN step_indices :
                      StepWithIndex(self, step_indices[k]) = NoStep}
    IN
    IF missing # {}
    THEN Out(self,
             Ret(FALSE,
                 "Step "
                 \o ToString(step_indices[CHOOSE k \in missing : \A m \in missing : k <= m])
                 \o " not found",
                 NoStep))
    ELSE
    LET formulas == [k \in DOMAIN step_indices |->
                        StepWithIndex(self, step_indices[k]).formula]
    IN
    IF ~can_apply(rule, formulas)
    THEN Out(self,
             Ret(FALSE, "Rule " \o rule.name \o " cannot be applied to selected steps",
                 NoStep))
    ELSE
    record_step(self, rule, step_indices, apply(rule, formulas, kwargs))

(***************************************************************************)
(* proof_system.py : auto_prove.  The state of one round is a record st:   *)
(* the object, new_steps_in_round, whether a return statement inside the   *)
(* loops was executed (returned, with its message) and whether the last    *)
(* apply_rule call succeeded (success).                                    *)
(***************************************************************************)
NoKwargs == [k \in {} |-> ""]

RoundStart(self) ==
    [self |-> self, new_steps_in_round |-> 0, returned |-> FALSE,
     message |-> "", success |-> FALSE]

\* The if-block without its return statement.
AfterAttempt_continuing(st, rule, r) ==
    IF r.ret.success
    THEN [self |-> r.self,
          new_steps_in_round |-> st.new_steps_in_round + 1,
          returned |-> FALSE,
          message |-> "",
          success |-> TRUE]
    ELSE [st EXCEPT !.success = FALSE]

\* The if-block after "success, _, _ = self.apply_rule(...)", r being what
\* the call returned and left.
AfterAttempt(st, rule, r) ==
    IF r.ret.success
    THEN [self |-> r.self,
          new_steps_in_round |-> st.new_steps_in_round + 1,
          returned |-> r.self.is_complete,
          message |-> IF r.self.is_complete
                      THEN "Proof complete! Used " \o rule.name ELSE "",
          success |-> TRUE]
    ELSE [st EXCEPT !.success = FALSE]

\* One "success, _, _ = self.apply_rule(...)" with the if-block after it.
\* Nothing is executed once a return statement was reached.
Attempt(st, rule, indices, kwargs) ==
    IF st.returned THEN st
    ELSE AfterAttempt(st, rule, apply_rule(st.self, rule.name, indices, kwargs))

\* A for statement: body(st, k) for k = lo, ..., hi in this order, the
\* state of the round threaded through; no iteration runs once a return
\* statement was executed.  The range is split in halves so that the
\* nesting of the evaluation grows with the logarithm of its length.
RECURSIVE ForRange(_, _, _, _)
ForRange(body(_, _), st, lo, hi) ==
    IF st.returned \/ lo > hi THEN st
    ELSE IF lo = hi THEN body(st, lo)
    ELSE LET mid == (lo + hi) \div 2
         IN ForRange(body, ForRange(body, st, lo, mid), mid + 1, hi)

\* The attempts on a list of index lists that stop at the first success
\* ("break"): both orders of a pair, three orders of a triple.
TryOrders(st, rule, orders) ==
    ForRange(LAMBDA s, k : IF s.success THEN s ELSE Attempt(s, rule, orders[k], NoKwargs),
             [st EXCEPT !.success = FALSE], 1, Len(orders))

\* Slice proof_steps[from:] of the source, from counted from 0.
StepsFrom(self, from) == SubSeq(self.proof_steps, from + 1, Len(self.proof_steps))

\* Binary rules: for i, step1 in enumerate(proof_steps[:]) / for step2 in
\* proof_steps[i + 1:].  snap is the copy the outer loop runs over; the slice
\* of the inner loop is taken when the inner loop starts.
BinaryInner(st, rule, step1, slice) ==
    ForRange(LAMBDA s, j :
                 IF s.returned THEN s
                 ELSE TryOrders(s, rule, << <<step1.index, slice[j].index>>,
                                            <<slice[j].index, step1.index>> >>),
             st, 1, Len(slice))

BinaryOuter(st, rule, snap) ==
    ForRange(LAMBDA s, i :
                 IF s.returned THEN s
                 ELSE BinaryInner(s, rule, snap[i], StepsFrom(s.self, i)),
             st, 1, Len(snap))

\* Constructive Dilemma: three nested loops; i and j are the 0-based
\* positions of step1 and step2 plus one.
TernaryInner(st, rule, step1, step2, slice) ==
    ForRange(LAMBDA s, k :
                 IF s.returned THEN s
                 ELSE TryOrders(s, rule,
                                << <<step1.index, step2.index, slice[k].index>>,
                                   <<step1.index, slice[k].index, step2.index>>,
                                   <<step2.index, slice[k].index, step1.index>> >>),
             st, 1, Len(slice))

TernaryMiddle(st, rule, step1, slice, i) ==
    ForRange(LAMBDA s, m :
                 IF s.returned THEN s
                 ELSE TernaryInner(s, rule, step1, slice[m], StepsFrom(s.self, i + m)),
             st, 1, Len(slice))

TernaryOuter(st, rule, snap) ==
    ForRange(LAMBDA s, i :
                 IF s.returned THEN s
                 ELSE TernaryMiddle(s, rule, snap[i], StepsFrom(s.self, i), i),
             st, 1, Len(snap))

\* The calls with the first setting of the parameter only.
UnaryKwargs_first_only(rule) ==
    IF rule.abbreviation \in {"CE", "SIMP"} THEN <<[which |-> "left"]>>
    ELSE IF rule.abbreviation = "BE" THEN <<[direction |-> "forward"]>>
    ELSE IF rule.abbreviation = "DN" THEN <<[mode |-> "eliminate"]>>
    ELSE <<NoKwargs>>

\* The apply_rule calls of the body of "for step in self.proof_steps[:]"
\* for a unary rule, by their keyword arguments, in order.
UnaryKwargs(rule) ==
    IF rule.abbreviation \in {"CE", "SIMP"}
    THEN <<[which |-> "left"], [which |-> "right"]>>
    ELSE IF rule.abbreviation = "BE"
    THEN <<[direction |-> "forward"], [direction |-> "backward"]>>
    ELSE IF rule.abbreviation = "DN" THEN <<[mode |-> "eliminate"]>>
    ELSE <<NoKwargs>>

UnaryBody(st, rule, step) ==
    ForRange(LAMBDA s, k : Attempt(s, rule, <<step.index>>, UnaryKwargs(rule)[k]),
             st, 1, Len(UnaryKwargs(rule)))

UnaryLoop(st, rule, snap) ==
    ForRange(LAMBDA s, i : UnaryBody(s, rule, snap[i]), st, 1, Len(snap))

\* The body of "for rule in self.inference_rules".
RuleBody(st, rule) ==
    IF st.returned THEN st
    ELSE IF rule.abbreviation = "ADD" THEN st
    ELSE IF rule.abbreviation \in {"MP", "MT", "HS", "DS", "CI", "BI", "RES"}
    THEN BinaryOuter(st, rule, st.self.proof_steps)
    ELSE IF rule.abbreviation = "CD"
    THEN TernaryOuter(st, rule, st.self.proof_steps)
    ELSE UnaryLoop(st, rule, st.self.proof_steps)

RuleLoop(st) ==
    ForRange(LAMBDA s, k : RuleBody(s, get_all_rules[k]), st, 1, Len(get_all_rules))

\* The end of auto_prove reporting success whatever the completion flag.
AutoProveEnd_optimistic(self) ==
    Out(self, Ret(TRUE, "Proof complete!", NoStep))

\* The end of auto_prove, after the while loop.
AutoProveEnd(self) ==
    IF self.is_complete THEN Out(self, Ret(TRUE, "Proof complete!", NoStep))
    ELSE Out(self, Ret(FALSE, "Could not complete proof within the step limit.", NoStep))

\* The while loop of auto_prove; RoundEnd is the end of its body, st being
\* the state the for loop over the rules left.
RECURSIVE WhileLoop(_, _, _), RoundEnd(_, _, _)
RoundEnd(st, steps_added, max_steps) ==
    IF st.returned THEN Out(st.self, Ret(TRUE, st.message, NoStep))
    ELSE IF st.new_steps_in_round = 0 THEN AutoProveEnd(st.self)
    ELSE WhileLoop(st.self, steps_added + st.new_steps_in_round, max_steps)

WhileLoop(self, steps_added, max_steps) ==
    IF steps_added < max_steps /\ ~self.is_complete
    THEN RoundEnd(RuleLoop(RoundStart(self)), steps_added, max_steps)
    ELSE AutoProveEnd(self)

auto_prove(self, max_steps) ==
    IF self.conclusion = None THEN Out(self, Ret(FALSE, "No conclusion set", NoStep))
    ELSE IF self.premises = <<>>
    THEN Out(self, Ret(FALSE, "No premises provided", NoStep))
    ELSE IF self.is_complete THEN Out(self, Ret(TRUE, "Proof already complete", NoStep))
    ELSE WhileLoop(self, 0, max_steps)

(***************************************************************************)
(* The proof session: a caller invokes the operations of one ProofSystem.  *)
(* call is the pending call (Idle between calls), result is the operation, *)
(* the returned tuple and, for auto_prove, the budget of the last          *)
(* completed call.                                                         *)
(***************************************************************************)
MaxSteps == 3
MaxAutoSteps == 1
MaxBudget == 1

PremiseInputs == {"A i B", "B i C", "A", "(A)", "A a B"}

ConclusionInputs == {"C", "B", "A"}

\* Keyword arguments given with a rule name: none, or the keyword the rule
\* reads with the value that is not apply_rule's default.
KwargsInputs(rule_name) ==
    {NoKwargs} \cup
    (CASE rule_name \in {"CE", "SIMP"} -> {[which |-> "right"]}
       [] rule_name = "BE" -> {[direction |-> "backward"]}
       [] rule_name = "DN" -> {[mode |-> "introduce"]}
       [] rule_name = "ADD" -> {[added_formula |-> "B d C"]}
       [] OTHER -> {})

\* The number of formulas the rule of that name takes (the length its
\* can_apply asks for); 1 for a name that is no rule.
RuleArity(rule_name) ==
    IF rule_name \in {"MP", "MT", "HS", "DS", "CI", "BI", "RES", "Modus Ponens", "mp"}
    THEN 2
    ELSE IF rule_name = "CD" THEN 3 ELSE 1

\* Index lists of the given length for a proof of n steps: lists of
\* different indices in use, a repeated index, and lists with the index
\* n + 1 that no step has.
StepIndexInputs(n, len) ==
    {ix \in [1..len -> 1..n] : \A j, k \in 1..len : j # k => ix[j] # ix[k]}
    \cup {[k \in 1..len |-> IF k = len THEN n + 1 ELSE k]}
    \cup (IF len = 2 /\ n >= 1 THEN {<<1, 1>>} ELSE {})

\* Calls that give a rule the wrong number of steps.
WrongArityInputs == {<<"MP", <<1>>>>, <<"CE", <<1, 2>>>>}

BudgetInputs == 0..MaxBudget

\* The fixtures of test_auto_prove_chain and test_auto_prove_no_solution:
\* premises, conclusion and the budget given to auto_prove.
TestFixtures ==
    {[premises |-> <<"A i B", "B i C", "A">>, conclusion |-> "C", max_steps |-> 10],
     [premises |-> <<"A">>, conclusion |-> "B", max_steps |-> 5]}

\* The proof is in the state the fixture builds: its premises, its
\* conclusion, no derived step.
InFixture(fx) ==
    /\ Len(premises) = Len(fx.premises)
    /\ \A k \in DOMAIN premises : premises[k].original_string = fx.premises[k]
    /\ Len(proof_steps) = Len(premises)
    /\ conclusion.original_string = fx.conclusion

\* The budgets offered to auto_prove: the small ones on proofs of at most
\* MaxAutoSteps steps, and in the state of a test fixture the small ones and
\* the budget of that test.
BudgetsHere ==
    (IF Len(proof_steps) <= MaxAutoSteps THEN BudgetInputs ELSE {})
    \cup UNION {BudgetInputs \cup {fx.max_steps} : fx \in {g \in TestFixtures : InFixture(g)}}

Idle ==
    [op |-> "idle", formula |-> None, rule_name |-> "", step_indices |-> <<>>,
     kwargs |-> NoKwargs, max_steps |-> 0, step_index |-> 0]

NoResult ==
    [op |-> "none", max_steps |-> 0, success |-> FALSE, message |-> "",
     new_step |-> NoStep, dependencies |-> {}]

Result(op, max_steps, ret) ==
    [op |-> op, max_steps |-> max_steps, success |-> ret.success,
     message |-> ret.message, new_step |-> ret.new_step, dependencies |-> {}]

Self ==
    [premises |-> premises, proof_steps |-> proof_steps, conclusion |-> conclusion,
     step_index |-> step_index, is_complete |-> is_complete]

SetSelf(self) ==
    /\ premises' = self.premises
    /\ proof_steps' = self.proof_steps
    /\ conclusion' = self.conclusion
    /\ step_index' = self.step_index
    /\ is_complete' = self.is_complete

ApplyRuleInputs ==
    IF Len(proof_steps) >= MaxSteps THEN {}
    ELSE UNION {{[Idle EXCEPT !.op = "apply_rule", !.rule_name = r,
                              !.step_indices = ix, !.kwargs = kw] :
                    ix \in StepIndexInputs(Len(proof_steps), RuleArity(r)),
                    kw \in KwargsInputs(r)} : r \in RuleNameInputs}
         \cup {[Idle EXCEPT !.op = "apply_rule", !.rule_name = w[1],
                            !.step_indices = w[2]] : w \in WrongArityInputs}

CallInputs ==
    {[Idle EXCEPT !.op = "add_premise", !.formula = Formula(s)] :
        s \in IF Len(proof_steps) < MaxSteps THEN PremiseInputs ELSE {}}
    \cup {[Idle EXCEPT !.op = "set_conclusion", !.formula = Formula(s)] :
            s \in ConclusionInputs}
    \cup ApplyRuleInputs
    \cup {[Idle EXCEPT !.op = "auto_prove", !.max_steps = n] : n \in BudgetsHere}
    \cup {[Idle EXCEPT !.op = "clear"]}
    \cup {[Idle EXCEPT !.op = "get_dependencies", !.step_index = i] :
            i \in 1..(Len(proof_steps) + 1)}

\* The caller makes its next call.
Invoke ==
    /\ call = Idle
    /\ result = NoResult
    /\ \E c \in CallInputs : call' = c
    /\ result' = NoResult
    /\ UNCHANGED <<proof_vars, rule_vars, text_vars, query_vars>>

Return(out, max_steps) ==
    /\ SetSelf(out.self)
    /\ result' = Result(call.op, max_steps, out.ret)
    /\ call' = Idle
    /\ UNCHANGED <<rule_vars, text_vars, query_vars>>

AddPremise ==
    /\ call.op = "add_premise"
    /\ Return(add_premise(Self, call.formula), 0)

SetConclusion ==
    /\ call.op = "set_conclusion"
    /\ Return(set_conclusion(Self, call.formula), 0)

ApplyRule ==
    /\ call.op = "apply_rule"
    /\ Return(apply_rule(Self, call.rule_name, call.step_indices, call.kwargs), 0)

AutoProve ==
    /\ call.op = "auto_prove"
    /\ Return(auto_prove(Self, call.max_steps), call.max_steps)

\* clear() returns nothing; the result records a completed call.
Clear ==
    /\ call.op = "clear"
    /\ Return(Out(clear(Self), Ret(TRUE, "", NoStep)), 0)

\* get_dependencies(step_index) changes nothing and returns a set.
GetDependencies ==
    /\ call.op = "get_dependencies"
    /\ result' = [NoResult EXCEPT !.op = call.op, !.success = TRUE,
                                  !.dependencies = get_dependencies(Self, call.step_index)]
    /\ call' = Idle
    /\ UNCHANGED <<proof_vars, rule_vars, text_vars, query_vars>>

\* The caller has read the returned tuple.
Acknowledge ==
    /\ call = Idle
    /\ result # NoResult
    /\ result' = NoResult
    /\ UNCHANGED <<proof_vars, call, rule_vars, text_vars, query_vars>>

\* The proof session starts with the object as __init__ leaves it.
InitSession ==
    /\ premises = EmptyProof.premises
    /\ proof_steps = EmptyProof.proof_steps
    /\ conclusion = EmptyProof.conclusion
    /\ step_index = EmptyProof.step_index
    /\ is_complete = EmptyProof.is_complete
    /\ call = Idle
    /\ result = NoResult

NotRun == [rule |-> "", param |-> "", applicable |-> FALSE, formula |-> None]

NoInput == <<>>

NotPrinted == [stage |-> "new", text |-> "", formula |-> None]

NoArgs == <<>>

\* No operation has returned yet: returned maps the name of an operation to
\* what it returned.
NothingReturned == <<>>

\* No operation of Formula, TruthTable or FormulaValidator is under study.
InitQuery ==
    /\ table = EmptyTable
    /\ args = NoArgs
    /\ returned = NothingReturned

\* The operation op returned the value v.
Put(op, v) == (op :> v) @@ returned

Init ==
    /\ InitSession
    /\ rule_in = NoInput
    /\ rule_out = NotRun
    /\ text_in = ""
    /\ text_out = NotPrinted
    /\ InitQuery

Next ==
    \/ Invoke
    \/ AddPremise
    \/ SetConclusion
    \/ ApplyRule
    \/ AutoProve
    \/ Clear
    \/ GetDependencies
    \/ Acknowledge

Spec == Init /\ [][Next]_vars

(***************************************************************************)
(* One inference rule applied to given formulas.  The formulas are drawn   *)
(* at the start; each action is one rule class asked can_apply and apply   *)
(* on them, with every value of the parameter its apply takes.             *)
(***************************************************************************)

RulePool ==
    {"A", "B", "nA", "nB", "nnA", "A i B", "B i C", "C i D", "B i A",
     "nB i nA", "A o B", "A o C", "nA o C", "nA o nB", "A a B", "nA a nB",
     "A e B", "(A e B) i C", "A i (B a C)", "(A a B) i C", "A i (B i C)",
     "n(A a B)", "n(A o B)", "(A i B) a (B i A)", "A u (B u C)"}

DilemmaPool == {"A i B", "C i D", "A o C", "(A e B) i C", "A"}

\* The formula given to Addition as the disjunct to add.
AddedInputs == {"B", "nA", "C a D", "B d C", "A i B"}

WhichInputs == {"left", "right"}

DirectionInputs == {"forward", "backward"}

ModeInputs == {"eliminate", "introduce"}

RuleInputs ==
    {<<Formula(s)>> : s \in RulePool}
    \cup {<<Formula(s), Formula(t)>> : s \in RulePool, t \in RulePool}
    \cup {<<Formula(s), Formula(t), Formula(w)>> :
            s \in DilemmaPool, t \in DilemmaPool, w \in DilemmaPool}

\* rule.can_apply(formulas) and rule.apply(formulas, ...) of one rule.
Ran(abbreviation, param, applicable, formula) ==
    /\ rule_in # NoInput
    /\ rule_out = NotRun
    /\ rule_out' = [rule |-> abbreviation, param |-> param,
                    applicable |-> applicable, formula |-> formula]
    /\ UNCHANGED <<session_vars, rule_in, text_vars, query_vars>>

ModusPonens ==
    Ran("MP", "", ModusPonens_can_apply(rule_in), ModusPonens_apply(rule_in))

ModusTollens ==
    Ran("MT", "", ModusTollens_can_apply(rule_in), ModusTollens_apply(rule_in))

HypotheticalSyllogism ==
    Ran("HS", "", HypotheticalSyllogism_can_apply(rule_in),
        HypotheticalSyllogism_apply(rule_in))

DisjunctiveSyllogism ==
    Ran("DS", "", DisjunctiveSyllogism_can_apply(rule_in),
        DisjunctiveSyllogism_apply(rule_in))

ConjunctionIntroduction ==
    Ran("CI", "", ConjunctionIntroduction_can_apply(rule_in),
        ConjunctionIntroduction_apply(rule_in))

ConjunctionElimination ==
    \E which \in WhichInputs :
        Ran("CE", which, ConjunctionElimination_can_apply(rule_in),
            ConjunctionElimination_apply(rule_in, which))

Addition ==
    \E added_formula_str \in AddedInputs :
        Ran("ADD", added_formula_str, Addition_can_apply(rule_in),
            Addition_apply(rule_in, added_formula_str))

Simplification ==
    \E which \in WhichInputs :
        Ran("SIMP", which, Simplification_can_apply(rule_in),
            Simplification_apply(rule_in, which))

BiconditionalIntroduction ==
    Ran("BI", "", BiconditionalIntroduction_can_apply(rule_in),
        BiconditionalIntroduction_apply(rule_in))

BiconditionalElimination ==
    \E direction \in DirectionInputs :
        Ran("BE", direction, BiconditionalElimination_can_apply(rule_in),
            BiconditionalElimination_apply(rule_in, direction))

DoubleNegation ==
    \E mode \in ModeInputs :
        Ran("DN", mode, DoubleNegation_can_apply(rule_in),
            DoubleNegation_apply(rule_in, mode))

DeMorgansLaw1 ==
    Ran("DML1", "", DeMorgansLaw1_can_apply(rule_in), DeMorgansLaw1_apply(rule_in))

DeMorgansLaw2 ==
    Ran("DML2", "", DeMorgansLaw2_can_apply(rule_in), DeMorgansLaw2_apply(rule_in))

Transposition ==
    Ran("TRANS", "", Transposition_can_apply(rule_in), Transposition_apply(rule_in))

Implication ==
    Ran("IMPL", "", Implication_can_apply(rule_in), Implication_apply(rule_in))

Exportation ==
    Ran("EXP", "", Exportation_can_apply(rule_in), Exportation_apply(rule_in))

Resolution ==
    Ran("RES", "", Resolution_can_apply(rule_in), Resolution_apply(rule_in))

Absorption ==
    Ran("ABS", "", Absorption_can_apply(rule_in), Absorption_apply(rule_in))

ConstructiveDilemma ==
    Ran("CD", "", ConstructiveDilemma_can_apply(rule_in),
        ConstructiveDilemma_apply(rule_in))

\* The rules that rewrite a formula of one of two forms into the other.
TwoFormRules == {"DML1", "DML2", "TRANS", "IMPL", "EXP"}

\* rule.can_apply([result]) and rule.apply([result]) of a two-form rule on
\* the formula it has just returned.
ApplyAgain ==
    /\ rule_out # NotRun
    /\ rule_out.rule \in TwoFormRules
    /\ IsFormula(rule_out.formula)
    /\ "again" \notin DOMAIN returned
    /\ LET rule == get_rule_by_abbreviation(rule_out.rule)
       IN returned' = Put("again",
                          [applicable |-> can_apply(rule, <<rule_out.formula>>),
                           formula |-> apply(rule, <<rule_out.formula>>, NoKwargs)])
    /\ UNCHANGED <<session_vars, rule_vars, text_vars, table, args>>

InitRules ==
    /\ InitSession
    /\ rule_in \in RuleInputs
    /\ rule_out = NotRun
    /\ text_in = ""
    /\ text_out = NotPrinted
    /\ InitQuery

NextRules ==
    \/ ModusPonens
    \/ ModusTollens
    \/ HypotheticalSyllogism
    \/ DisjunctiveSyllogism
    \/ ConjunctionIntroduction
    \/ ConjunctionElimination
    \/ Addition
    \/ Simplification
    \/ BiconditionalIntroduction
    \/ BiconditionalElimination
    \/ DoubleNegation
    \/ DeMorgansLaw1
    \/ DeMorgansLaw2
    \/ Transposition
    \/ Implication
    \/ Exportation
    \/ Resolution
    \/ Absorption
    \/ ConstructiveDilemma
    \/ ApplyAgain

SpecRules == InitRules /\ [][NextRules]_vars

(***************************************************************************)
(* One expression parsed, printed by to_string and parsed again.           *)
(***************************************************************************)

BinaryOperators == {"a", "o", "i", "e", "x", "u", "d"}

TextInputs ==
    {"A " \o p \o " (B " \o q \o " C)" : p \in BinaryOperators, q \in BinaryOperators}
    \cup {"(A " \o p \o " B) " \o q \o " C" : p \in BinaryOperators, q \in BinaryOperators}
    \cup {"A " \o p \o " B " \o q \o " C" : p \in BinaryOperators, q \in BinaryOperators}
    \cup {"n(A " \o p \o " B)" : p \in BinaryOperators}
    \cup {"nA " \o p \o " nnB" : p \in BinaryOperators}
    \cup {"A", "nA", "nnA", "((A))", "A -> B", "A <-> B", "A & B | C", "~A ^ B",
          "A a", "(A o B"}

\* Formula(text_in).to_string(); no object exists when the constructor raised.
Render ==
    /\ text_out.stage = "new"
    /\ IsFormula(Formula(text_in))
    /\ text_out' = [text_out EXCEPT !.stage = "printed",
                                    !.text = to_string(Formula(text_in).ast)]
    /\ UNCHANGED <<session_vars, rule_vars, text_in, query_vars>>

\* Formula(text_out.text): the printed text is parsed.
Reparse ==
    /\ text_out.stage = "printed"
    /\ text_out' = [text_out EXCEPT !.stage = "parsed",
                                    !.formula = Formula(text_out.text)]
    /\ UNCHANGED <<session_vars, rule_vars, text_in, query_vars>>

InitText ==
    /\ InitSession
    /\ rule_in = NoInput
    /\ rule_out = NotRun
    /\ text_in \in TextInputs
    /\ text_out = NotPrinted
    /\ InitQuery

NextText ==
    \/ Render
    \/ Reparse

SpecText == InitText /\ [][NextText]_vars

(***************************************************************************)
(* A truth table generated from given formulas, and one of the formulas    *)
(* classified by the table and by the validator.                           *)
(***************************************************************************)

TablePool ==
    {"A a B", "A o nA", "A a nA", "B i A", "C", "A e B", "(A i B) o (B i A)",
     "n(C o nC) a B", "A x A", "A u nA"}

TableInputs ==
    UNION {{[formulas |-> formulas, formula_index |-> i] : i \in 0..Len(formulas)} :
             formulas \in {<<>>} \cup {<<Formula(s)>> : s \in TablePool}
                          \cup {<<Formula(s), Formula(t)>> : s \in TablePool, t \in TablePool}}

\* table.generate_from_formulas(args.formulas); what was returned on the
\* table there was before is forgotten.
GenerateFromFormulas ==
    /\ "generate_from_formulas" \notin DOMAIN returned
    /\ LET out == generate_from_formulas(table, args.formulas)
       IN /\ table' = out.self
          /\ returned' = ("generate_from_formulas" :>
                            [success |-> out.success, message |-> out.message])
    /\ UNCHANGED <<session_vars, rule_vars, text_vars, args>>

IsTautology ==
    /\ "is_tautology" \notin DOMAIN returned
    /\ returned' = Put("is_tautology", is_tautology(table, args.formula_index))
    /\ UNCHANGED <<session_vars, rule_vars, text_vars, table, args>>

IsContradiction ==
    /\ "is_contradiction" \notin DOMAIN returned
    /\ returned' = Put("is_contradiction", is_contradiction(table, args.formula_index))
    /\ UNCHANGED <<session_vars, rule_vars, text_vars, table, args>>

\* FormulaValidator().get_formula_type(args.formulas[args.formula_index])
GetFormulaType ==
    /\ "get_formula_type" \notin DOMAIN returned
    /\ args.formula_index < Len(args.formulas)
    /\ LET formula == args.formulas[args.formula_index + 1]
       IN \E props1 \in Orders(atomic_propositions(formula.ast)),
             props2 \in Orders(atomic_propositions(formula.ast)) :
             returned' = Put("get_formula_type",
                             get_formula_type(formula, props1, props2))
    /\ UNCHANGED <<session_vars, rule_vars, text_vars, table, args>>

InitTable ==
    /\ InitSession
    /\ rule_in = NoInput
    /\ rule_out = NotRun
    /\ text_in = ""
    /\ text_out = NotPrinted
    /\ table = EmptyTable
    /\ args \in TableInputs
    /\ returned = NothingReturned

NextTable ==
    \/ GenerateFromFormulas
    \/ IsTautology
    \/ IsContradiction
    \/ GetFormulaType

SpecTable == InitTable /\ [][NextTable]_vars

(***************************************************************************)
(* One formula evaluated under one assignment, which may leave out         *)
(* propositions of the formula or name others.                             *)
(***************************************************************************)

EvaluatePool ==
    {"A " \o p \o " B" : p \in BinaryOperators}
    \cup {"A " \o p \o " A" : p \in BinaryOperators}
    \cup {"A", "nA", "nnB", "nA a B i C", "A o n(B x C)", "(A u B) d nC"}

AssignedProps == {"A", "B", "C"}

EvaluateInputs ==
    {[formula |-> Formula(s), truth_values |-> truth_values] :
        s \in EvaluatePool,
        truth_values \in UNION {[given -> BOOLEAN] : given \in SUBSET AssignedProps}}

\* args.formula.evaluate(args.truth_values)
Evaluate ==
    /\ "evaluate" \notin DOMAIN returned
    /\ returned' = Put("evaluate", evaluate(args.formula, args.truth_values))
    /\ UNCHANGED <<session_vars, rule_vars, text_vars, table, args>>

InitEvaluate ==
    /\ InitSession
    /\ rule_in = NoInput
    /\ rule_out = NotRun
    /\ text_in = ""
    /\ text_out = NotPrinted
    /\ table = EmptyTable
    /\ args \in EvaluateInputs
    /\ returned = NothingReturned

NextEvaluate == Evaluate

SpecEvaluate == InitEvaluate /\ [][NextEvaluate]_vars

(***************************************************************************)
(* The constructor and the equality of Formula, on three expressions:      *)
(* args is the tuple of the expressions, returned["Formula"] the formulas  *)
(* constructed so far, in the order of args, and returned["__eq__"] the    *)
(* comparisons made so far, by the pair of positions compared.             *)
(***************************************************************************)
\* Spellings that differ in spacing, parentheses and operator alphabet, one
\* expression with the operands exchanged, one that does not parse.
EqualityPool ==
    {"A a B", "A&B", "( A  a  B )", "((A) & (B))", "B a A", "A i B", "A -> B", "A a"}

\* Every two binary operators in a row without parentheses, and the two
\* ways of parenthesising them.
GroupingInputs ==
    {<<"A " \o p \o " B " \o q \o " C",
       "(A " \o p \o " B) " \o q \o " C",
       "A " \o p \o " (B " \o q \o " C)">> : p, q \in BinaryOperators}
    \cup {<<"nA " \o p \o " B", "n(A " \o p \o " B)", "A " \o p \o " nB">> :
             p \in BinaryOperators}

FormulaInputs ==
    {<<s, t, w>> : s, t, w \in EqualityPool} \cup GroupingInputs

Constructed == IF "Formula" \in DOMAIN returned THEN returned["Formula"] ELSE <<>>

Compared == IF "__eq__" \in DOMAIN returned THEN returned["__eq__"] ELSE <<>>

\* Formula(args[k]) for the next k
Construct ==
    /\ Len(Constructed) < Len(args)
    /\ returned' = Put("Formula", Append(Constructed, Formula(args[Len(Constructed) + 1])))
    /\ UNCHANGED <<session_vars, rule_vars, text_vars, table, args>>

\* The pairs of positions holding formulas that were not compared yet.
Uncompared ==
    {pair \in (DOMAIN Constructed) \X (DOMAIN Constructed) :
        /\ IsFormula(Constructed[pair[1]])
        /\ IsFormula(Constructed[pair[2]])
        /\ pair \notin DOMAIN Compared}

\* Constructed[k] == Constructed[m], the pairs taken row by row
Equals ==
    /\ Len(Constructed) = Len(args)
    /\ \E pair \in Uncompared :
          /\ \A other \in Uncompared :
                pair[1] < other[1] \/ (pair[1] = other[1] /\ pair[2] <= other[2])
          /\ returned' = Put("__eq__",
                             (pair :> FormulaEq(Constructed[pair[1]], Constructed[pair[2]]))
                                @@ Compared)
    /\ UNCHANGED <<session_vars, rule_vars, text_vars, table, args>>

InitFormula ==
    /\ InitSession
    /\ rule_in = NoInput
    /\ rule_out = NotRun
    /\ text_in = ""
    /\ text_out = NotPrinted
    /\ table = EmptyTable
    /\ args \in FormulaInputs
    /\ returned = NothingReturned

NextFormula == Construct \/ Equals

SpecFormula == InitFormula /\ [][NextFormula]_vars

(***************************************************************************)
(* FormulaValidator.find_counter_example on a list of premises and a       *)
(* conclusion: args is [premises, conclusion].                             *)
(***************************************************************************)
ArgumentPool ==
    {"A", "B", "nA", "A i B", "B i C", "A o B", "A a nA", "C o nC", "n(A a B)"}

ArgumentInputs ==
    {[premises |-> premise_list, conclusion |-> c] :
        premise_list \in {<<>>}
            \cup {<<Formula(s)>> : s \in ArgumentPool}
            \cup {<<Formula(s), Formula(t)>> : s, t \in ArgumentPool},
        c \in {Formula(s) : s \in ArgumentPool} \cup {None}}

\* The formulas of a list of arguments, None left out: the propositions
\* of a conclusion are not collected before it was tested against None.
Given(formulas) == SelectSeq(formulas, LAMBDA f : f # None)

\* validator.find_counter_example(args.premises, args.conclusion); on the
\* conclusion None the call ends in an AttributeError and returns nothing.
FindCounterExample ==
    /\ "find_counter_example" \notin DOMAIN returned
    /\ args.conclusion # None
    /\ \E props_list \in Orders(AllProps(Append(args.premises, args.conclusion))) :
          returned' = Put("find_counter_example",
                          find_counter_example(args.premises, args.conclusion, props_list))
    /\ UNCHANGED <<session_vars, rule_vars, text_vars, table, args>>

\* validator.validate_premises_and_conclusion(args.premises, args.conclusion)
ValidatePremisesAndConclusion ==
    /\ "validate_premises_and_conclusion" \notin DOMAIN returned
    /\ \E tautology_props \in Orders(AllProps(Given(<<args.conclusion>>))),
          props_list \in Orders(AllProps(Given(Append(args.premises, args.conclusion)))) :
          returned' = Put("validate_premises_and_conclusion",
                          validate_premises_and_conclusion(args.premises, args.conclusion,
                                                           tautology_props, props_list))
    /\ UNCHANGED <<session_vars, rule_vars, text_vars, table, args>>

InitValidator ==
    /\ InitSession
    /\ rule_in = NoInput
    /\ rule_out = NotRun
    /\ text_in = ""
    /\ text_out = NotPrinted
    /\ table = EmptyTable
    /\ args \in ArgumentInputs
    /\ returned = NothingReturned

NextValidator == FindCounterExample \/ ValidatePremisesAndConclusion

SpecValidator == InitValidator /\ [][NextValidator]_vars

(***************************************************************************)
(* clear() and generate_from_formulas called again and again: args is the  *)
(* proof the calls of clear() start from and the formula list of the calls *)
(* of generate_from_formulas; returned holds, for each of the two          *)
(* operations, the values its calls returned so far.                       *)
(***************************************************************************)
MaxRepeats == 2

\* The empty proof, the proof of B from A -> B and A before its derived
\* step, and that proof complete.
SeededProofs ==
    LET s1 == add_premise(EmptyProof, Formula("A i B")).self
        s2 == add_premise(s1, Formula("A")).self
        s3 == set_conclusion(s2, Formula("B")).self
        s4 == apply_rule(s3, "Modus Ponens", <<1, 2>>, NoKwargs).self
    IN {EmptyProof, s3, s4}

RepeatInputs ==
    {[proof |-> proof, formulas |-> input.formulas] :
        proof \in SeededProofs, input \in TableInputs}

Calls(op) == IF op \in DOMAIN returned THEN returned[op] ELSE <<>>

\* proof.clear()
RepeatClear ==
    /\ Len(Calls("clear")) < MaxRepeats
    /\ SetSelf(clear(Self))
    /\ returned' = Put("clear", Append(Calls("clear"), None))
    /\ UNCHANGED <<call, result, rule_vars, text_vars, table, args>>

\* table.generate_from_formulas(args.formulas)
RepeatGenerate ==
    /\ Len(Calls("generate_from_formulas")) < MaxRepeats
    /\ LET out == generate_from_formulas(table, args.formulas)
       IN /\ table' = out.self
          /\ returned' = Put("generate_from_formulas",
                             Append(Calls("generate_from_formulas"),
                                    [success |-> out.success, message |-> out.message]))
    /\ UNCHANGED <<session_vars, rule_vars, text_vars, args>>

InitRepeat ==
    /\ args \in RepeatInputs
    /\ premises = args.proof.premises
    /\ proof_steps = args.proof.proof_steps
    /\ conclusion = args.proof.conclusion
    /\ step_index = args.proof.step_index
    /\ is_complete = args.proof.is_complete
    /\ call = Idle
    /\ result = NoResult
    /\ rule_in = NoInput
    /\ rule_out = NotRun
    /\ text_in = ""
    /\ text_out = NotPrinted
    /\ table = EmptyTable
    /\ returned = NothingReturned

NextRepeat == RepeatClear \/ RepeatGenerate

SpecRepeat == InitRepeat /\ [][NextRepeat]_vars

(***************************************************************************)
(* auto_prove round by round.  args is the proof the call is made on and   *)
(* its max_steps.  Once the while statement was reached, returned holds    *)
(* the local steps_added of the running call and, under "rounds", how many *)
(* times the body of the while statement was executed; once the call       *)
(* returned it holds the returned pair under "auto_prove".                 *)
(***************************************************************************)
SearchPool == {"A", "nnA", "A a B", "A e B"}

\* Proofs built by add_premise and set_conclusion: up to MaxAutoSteps
\* premises of the pool or the premises of a test fixture, and a conclusion
\* or none.
RECURSIVE WithPremises(_, _, _)
WithPremises(self, texts, k) ==
    IF k > Len(texts) THEN self
    ELSE WithPremises(add_premise(self, Formula(texts[k])).self, texts, k + 1)

SearchProofs ==
    LET lists == UNION {[1..n -> SearchPool] : n \in 0..MaxAutoSteps}
                 \cup {fx.premises : fx \in TestFixtures}
        started == {WithPremises(EmptyProof, texts, 1) : texts \in lists}
    IN started
       \cup {set_conclusion(self, Formula(c)).self :
               self \in started, c \in ConclusionInputs}

\* Budgets that end the search before a round, after one and after two.
SearchInputs ==
    {[proof |-> proof, max_steps |-> n] :
        proof \in SearchProofs, n \in 0..(MaxBudget + 1)}

Searching == "steps_added" \in DOMAIN returned /\ "auto_prove" \notin DOMAIN returned

\* "steps_added += new_steps_in_round"
Counted(st, steps_added) == steps_added + st.new_steps_in_round

\* The test "new_steps_in_round == 0" that is never true.
Saturated_never(st) == FALSE

\* "if new_steps_in_round == 0: break"
Saturated(st) == st.new_steps_in_round = 0

\* auto_prove up to its while statement
SearchEnter ==
    /\ returned = NothingReturned
    /\ returned' =
          IF conclusion = None
          THEN Put("auto_prove", Ret(FALSE, "No conclusion set", NoStep))
          ELSE IF premises = <<>>
          THEN Put("auto_prove", Ret(FALSE, "No premises provided", NoStep))
          ELSE IF is_complete
          THEN Put("auto_prove", Ret(TRUE, "Proof already complete", NoStep))
          ELSE [steps_added |-> 0, rounds |-> 0]
    /\ UNCHANGED <<session_vars, rule_vars, text_vars, table, args>>

\* The end of the body of the while statement, st being the state the
\* for loop over the rules left: a return statement was executed in the
\* loop, or the round is counted and the loop left or gone through again.
SearchRoundEnd(st) ==
    /\ SetSelf(st.self)
    /\ returned' =
          IF st.returned
          THEN ("auto_prove" :> Ret(TRUE, st.message, NoStep))
                  @@ [returned EXCEPT !.rounds = @ + 1]
          ELSE IF Saturated(st)
          THEN ("auto_prove" :> AutoProveEnd(st.self).ret)
                  @@ [returned EXCEPT !.rounds = @ + 1,
                                      !.steps_added = Counted(st, @)]
          ELSE [returned EXCEPT !.rounds = @ + 1, !.steps_added = Counted(st, @)]

\* One execution of the body of the while statement
SearchRound ==
    /\ Searching
    /\ returned.steps_added < args.max_steps
    /\ ~is_complete
    /\ SearchRoundEnd(RuleLoop(RoundStart(Self)))
    /\ UNCHANGED <<call, result, rule_vars, text_vars, table, args>>

\* The while condition is false: the statements after the loop
SearchExit ==
    /\ Searching
    /\ ~(returned.steps_added < args.max_steps /\ ~is_complete)
    /\ returned' = Put("auto_prove", AutoProveEnd(Self).ret)
    /\ UNCHANGED <<session_vars, rule_vars, text_vars, table, args>>

InitSearch ==
    /\ args \in SearchInputs
    /\ premises = args.proof.premises
    /\ proof_steps = args.proof.proof_steps
    /\ conclusion = args.proof.conclusion
    /\ step_index = args.proof.step_index
    /\ is_complete = args.proof.is_complete
    /\ call = Idle
    /\ result = NoResult
    /\ rule_in = NoInput
    /\ rule_out = NotRun
    /\ text_in = ""
    /\ text_out = NotPrinted
    /\ table = EmptyTable
    /\ returned = NothingReturned

NextSearch == SearchEnter \/ SearchRound \/ SearchExit

SpecSearch == InitSearch /\ [][NextSearch]_vars

(***************************************************************************)
(* Properties.                                                             *)
(***************************************************************************)

\* C1 (rule soundness): whenever a rule's can_apply holds on the given
\* formulas and its apply returns a formula, every truth assignment that
\* makes all the given formulas true makes the returned formula true.
C1_RuleSoundness ==
    (rule_out.applicable /\ IsFormula(rule_out.formula)) =>
        LET props == UNION {atomic_propositions(rule_in[k].ast) : k \in DOMAIN rule_in}
                     \cup atomic_propositions(rule_out.formula.ast)
        IN \A truth_values \in [props -> BOOLEAN] :
              (\A k \in DOMAIN rule_in : evaluate_node(rule_in[k].ast, truth_values))
              => evaluate_node(rule_out.formula.ast, truth_values)

\* C2 (print/parse round trip): for every expression that parses, the text
\* to_string prints for it parses, and to a tree structurally equal to the
\* tree of the expression.
C2_PrintParseRoundTrip ==
    text_out.stage = "parsed" =>
        /\ IsFormula(text_out.formula)
        /\ FormulaEq(text_out.formula, Formula(text_in))

\* C3 (completion invariant): is_complete is true exactly when a conclusion
\* is set and the formula of some proof step equals it.
C3_CompletionInvariant ==
    is_complete <=>
        /\ conclusion # None
        /\ \E k \in DOMAIN proof_steps : FormulaEq(proof_steps[k].formula, conclusion)

\* C4 (premise deduplication): add_premise(f) fails and appends no step when
\* f is structurally equal to a premise already there, whatever its text;
\* otherwise it appends exactly one step, justified "Premise", without
\* dependencies, carrying the next index.
C4_AddPremiseDeduplicates ==
    [][call.op = "add_premise" =>
          IF \E k \in DOMAIN premises : FormulaEq(premises[k], call.formula)
          THEN ~result'.success /\ proof_steps' = proof_steps
          ELSE /\ result'.success
               /\ proof_steps' =
                     Append(proof_steps,
                            ProofStep(step_index, call.formula, "Premise", <<>>))]_vars

\* C5 (no duplicate derived steps): apply_rule never appends a step whose
\* formula is structurally equal to the formula of a step already there.
C5_NoDuplicateStep ==
    [][call.op = "apply_rule" =>
          \A k \in DOMAIN proof_steps' :
              k > Len(proof_steps) =>
                  \A m \in DOMAIN proof_steps :
                      ~FormulaEq(proof_steps'[k].formula, proof_steps[m].formula)]_vars

\* C6 (failure atomicity): an add_premise or apply_rule that returns failure
\* leaves the steps, the premises, the conclusion, the next index and the
\* completion flag as they were.
C6_FailureAtomicity ==
    [][(call.op \in {"add_premise", "apply_rule"} /\ ~result'.success)
          => UNCHANGED proof_vars]_vars

\* A rule application was refused because its formula is already in the
\* proof.
C6_Witness ==
    /\ result.op = "apply_rule"
    /\ ~result.success
    /\ result.message = "This formula already exists in the proof"
    /\ proof_steps # <<>>

\* C7 (shape of a derived step): a successful apply_rule(ruleName,
\* stepIndices) appends exactly one step; its index is the next index, its
\* justification the full name of the rule also when the rule was given by
\* its abbreviation, its dependencies stepIndices in the order given, its
\* formula what the rule concludes from the formulas of those steps.  Modus
\* Ponens on steps 1 and 2 holding A -> B and A yields B with dependencies
\* <<1, 2>>.
C7_DerivedStepShape ==
    [][(call.op = "apply_rule" /\ result'.success) =>
          LET given == LowerOfName[call.rule_name]
              k == CHOOSE j \in DOMAIN get_all_rules :
                      given \in {LowerNames[j], LowerAbbreviations[j]}
              rule == get_all_rules[k]
              formulas == [j \in DOMAIN call.step_indices |->
                              proof_steps[call.step_indices[j]].formula]
              new_step == ProofStep(Len(proof_steps) + 1,
                                    apply(rule, formulas, call.kwargs),
                                    rule.name, call.step_indices)
          IN /\ proof_steps' = Append(proof_steps, new_step)
             /\ result'.new_step = new_step
             /\ new_step.index = step_index
             /\ (/\ rule.name = "Modus Ponens"
                 /\ call.step_indices = <<1, 2>>
                 /\ formulas[1].ast = Bin("IMPLIES", "i", Prop("A"), Prop("B"))
                 /\ formulas[2].ast = Prop("A"))
                => new_step.formula.ast = Prop("B")]_vars

\* Modus Ponens on steps 1 and 2, A -> B and A, added B.
C7_Witness ==
    /\ result.op = "apply_rule"
    /\ result.success
    /\ result.new_step.justification = "Modus Ponens"
    /\ result.new_step.dependencies = <<1, 2>>
    /\ result.new_step.formula.ast = Prop("B")
    /\ result.new_step = proof_steps[Len(proof_steps)]
    /\ proof_steps[1].formula.ast = Bin("IMPLIES", "i", Prop("A"), Prop("B"))

\* C8 (proof search budget): auto_prove(max_steps = n) appends at most n
\* steps, in every proof state and for every n >= 0.
C8_AutoProveBudget ==
    [][call.op = "auto_prove" =>
          Len(proof_steps') <= Len(proof_steps) + call.max_steps]_vars

\* C9 (proof search result): auto_prove returns success exactly when
\* is_complete is true as it returns, and on success the formula of some
\* step equals the conclusion.  On the premises A -> B, B -> C, A with the
\* conclusion C and a budget of 10 it succeeds; on the premise A with the
\* conclusion B and a budget of 5 it fails, adds no step and leaves the proof
\* incomplete.
C9_AutoProveResult ==
    [][call.op = "auto_prove" =>
          /\ result'.success <=> is_complete'
          /\ result'.success =>
                \E k \in DOMAIN proof_steps' :
                    FormulaEq(proof_steps'[k].formula, conclusion')
          /\ \A fx \in TestFixtures :
                (InFixture(fx) /\ call.max_steps = fx.max_steps) =>
                    IF fx.conclusion = "C"
                    THEN result'.success
                    ELSE /\ ~result'.success
                         /\ proof_steps' = proof_steps
                         /\ ~is_complete']_vars

\* The search on A -> B, B -> C, A with the budget 10 derived C.
C9_Witness ==
    /\ result.op = "auto_prove"
    /\ result.success
    /\ result.max_steps = 10
    /\ is_complete
    /\ Len(premises) = 3
    /\ Len(proof_steps) > Len(premises)

\* C10 (append only): every operation other than clear leaves the steps
\* there were as a prefix of the steps there are; a search that fails keeps
\* the steps it derived.
C10_AppendOnly ==
    [][call.op # "clear" =>
          /\ Len(proof_steps') >= Len(proof_steps)
          /\ SubSeq(proof_steps', 1, Len(proof_steps)) = proof_steps]_vars

\* A search returned failure and the steps it derived are in the proof.
C10_Witness ==
    /\ result.op = "auto_prove"
    /\ ~result.success
    /\ Len(proof_steps) > Len(premises)

\* C11 (step numbering): the i-th step of the list has the index i and the
\* next index to assign is the number of steps plus one, in every state, the
\* states after clear() among them.
C11_StepIndices ==
    /\ \A i \in DOMAIN proof_steps : proof_steps[i].index = i
    /\ step_index = Len(proof_steps) + 1

\* A proof of several steps that ends with a derived step.
C11_Witness ==
    /\ Len(proof_steps) >= 2
    /\ proof_steps[Len(proof_steps)].justification # "Premise"
    /\ proof_steps[Len(proof_steps)].index = Len(proof_steps)

\* C12 (dependencies point backwards): a step justified "Premise" has no
\* dependencies, every dependency of a derived step is the index of a step
\* before it, and get_dependencies(i) returns exactly the transitive closure
\* of the dependencies of step i (the least set that holds them and the
\* dependencies of its members), every member smaller than i.
C12_DependenciesBackwards ==
    [][LET direct(i) == {proof_steps[i].dependencies[k] :
                            k \in DOMAIN proof_steps[i].dependencies}
           closed(i) == {S \in SUBSET DOMAIN proof_steps :
                            direct(i) \subseteq S /\ \A d \in S : direct(d) \subseteq S}
       IN /\ \A i \in DOMAIN proof_steps :
                /\ proof_steps[i].justification = "Premise" => direct(i) = {}
                /\ \A d \in direct(i) : d \in DOMAIN proof_steps /\ d < i
          /\ call.op = "get_dependencies" =>
                IF call.step_index \in DOMAIN proof_steps
                THEN /\ result'.dependencies \in closed(call.step_index)
                     /\ \A S \in closed(call.step_index) : result'.dependencies \subseteq S
                     /\ \A d \in result'.dependencies : d < call.step_index
                ELSE result'.dependencies = {}]_vars

\* get_dependencies returned the dependencies of a step derived from a
\* derived step.
C12_Witness ==
    /\ result.op = "get_dependencies"
    /\ \E d \in result.dependencies : proof_steps[d].justification # "Premise"

\* C14 (truth-table enumeration): a table generated from a non-empty list of
\* formulas over k propositions has 2^k rows; its proposition columns are in
\* ascending alphabetical order; its first row makes every proposition
\* true; row r (from 0) gives column j (from 0) true exactly when bit k-1-j
\* of r is 0; every formula column holds the value of the formula under the
\* assignment of the row.  A and B gives (T,T,T), (T,F,F), (F,T,F), (F,F,F).
C14_TruthTableEnumeration ==
    (table.is_generated /\ args.formulas # <<>>) =>
        LET k == Cardinality(AllProps(args.formulas))
            place(c) == CHOOSE n \in DOMAIN Alphabet : Alphabet[n] = c
            assignment(row) ==
                [c \in AllProps(args.formulas) |->
                    row[CHOOSE j \in 1..k : table.atomic_props[j] = c] = "True"]
        IN /\ Len(table.rows) = 2 ^ k
           /\ Len(table.atomic_props) = k
           /\ {table.atomic_props[j] : j \in 1..k} = AllProps(args.formulas)
           /\ \A i, j \in 1..k :
                 i < j => place(table.atomic_props[i]) < place(table.atomic_props[j])
           /\ \A j \in 1..k : table.rows[1][j] = "True"
           /\ \A r \in 0..(2 ^ k - 1), j \in 0..(k - 1) :
                 (table.rows[r + 1][j + 1] = "True")
                    <=> ((r \div (2 ^ (k - 1 - j))) % 2 = 0)
           /\ \A r \in DOMAIN table.rows :
                 /\ Len(table.rows[r]) = k + Len(args.formulas)
                 /\ \A m \in DOMAIN args.formulas :
                       (table.rows[r][k + m] = "True")
                          <=> evaluate_node(args.formulas[m].ast, assignment(table.rows[r]))
                 /\ \A m \in 1..(k + Len(args.formulas)) :
                       table.rows[r][m] \in {"True", "False"}
           /\ args.formulas = <<Formula("A a B")>> =>
                 /\ table.headers = <<"A", "B", "A a B">>
                 /\ table.rows = << <<"True", "True", "True">>,
                                    <<"True", "False", "False">>,
                                    <<"False", "True", "False">>,
                                    <<"False", "False", "False">> >>

\* A table was generated from two formulas over three propositions.
C14_Witness ==
    /\ table.is_generated
    /\ Len(args.formulas) = 2
    /\ Len(table.atomic_props) = 3
    /\ Len(table.rows) = 8

\* C20 (classification): get_formula_type returns one of tautology,
\* contradiction and contingent: tautology exactly when the formula is true
\* under every assignment of its propositions, contradiction exactly when it
\* is true under none; and in a generated table that holds the formula, also
\* one that enumerates propositions of other formulas, is_tautology and
\* is_contradiction give the same answer as get_formula_type.
C20_Classification ==
    "get_formula_type" \in DOMAIN returned =>
        LET formula == args.formulas[args.formula_index + 1]
            kind == returned["get_formula_type"]
            assignments == [atomic_propositions(formula.ast) -> BOOLEAN]
        IN /\ kind \in {"tautology", "contradiction", "contingent"}
           /\ (kind = "tautology")
                 <=> \A truth_values \in assignments :
                        evaluate_node(formula.ast, truth_values)
           /\ (kind = "contradiction")
                 <=> \A truth_values \in assignments :
                        ~evaluate_node(formula.ast, truth_values)
           /\ (table.is_generated /\ "is_tautology" \in DOMAIN returned)
                 => (returned["is_tautology"] <=> (kind = "tautology"))
           /\ (table.is_generated /\ "is_contradiction" \in DOMAIN returned)
                 => (returned["is_contradiction"] <=> (kind = "contradiction"))

\* A contingent formula over one proposition was classified by the validator
\* and by a table that enumerates three propositions.
C20_Witness ==
    /\ table.is_generated
    /\ {"get_formula_type", "is_tautology", "is_contradiction"} \subseteq DOMAIN returned
    /\ returned["get_formula_type"] = "contingent"
    /\ Len(table.atomic_props) = 3
    /\ Cardinality(atomic_propositions(args.formulas[args.formula_index + 1].ast)) = 1

\* C15 (truth functions): evaluate gives a connective applied to two
\* propositions its standard truth table (the implication is false only for
\* true -> false) and gives a negated proposition the opposite of the value
\* of the proposition.
C15_TruthFunctions ==
    ("evaluate" \in DOMAIN returned /\ ~returned["evaluate"].raised) =>
        LET node == args.formula.ast
            value == returned["evaluate"].value
            true_for ==
                [AND |-> {<<TRUE, TRUE>>},
                 OR |-> {<<TRUE, TRUE>>, <<TRUE, FALSE>>, <<FALSE, TRUE>>},
                 IMPLIES |-> {<<TRUE, TRUE>>, <<FALSE, TRUE>>, <<FALSE, FALSE>>},
                 IFF |-> {<<TRUE, TRUE>>, <<FALSE, FALSE>>},
                 XOR |-> {<<TRUE, FALSE>>, <<FALSE, TRUE>>},
                 NAND |-> {<<TRUE, FALSE>>, <<FALSE, TRUE>>, <<FALSE, FALSE>>},
                 NOR |-> {<<FALSE, FALSE>>}]
        IN /\ (node.type = "NOT" /\ node.operand.type = "PROP") =>
                 (value <=> ~args.truth_values[node.operand.value])
           /\ (node.type \in DOMAIN true_for
               /\ node.left.type = "PROP" /\ node.right.type = "PROP") =>
                 (value <=> <<args.truth_values[node.left.value],
                              args.truth_values[node.right.value]>>
                            \in true_for[node.type])

\* The implication A -> B was evaluated to false.
C15_Witness ==
    /\ "evaluate" \in DOMAIN returned
    /\ ~returned["evaluate"].raised
    /\ args.formula.ast.type = "IMPLIES"
    /\ args.formula.ast.left.type = "PROP"
    /\ args.formula.ast.right.type = "PROP"
    /\ ~returned["evaluate"].value

\* C18 (evaluate and the assignment): evaluate returns a boolean when the
\* assignment maps every proposition of the formula, and that boolean is the
\* one it returns for the assignment without the other propositions; it
\* raises, returning no value, when a proposition of the formula is absent.
C18_EvaluateAssignment ==
    "evaluate" \in DOMAIN returned =>
        LET props == atomic_propositions(args.formula.ast)
            given == DOMAIN args.truth_values
            needed == [c \in props |-> args.truth_values[c]]
        IN /\ returned["evaluate"].raised <=> ~(props \subseteq given)
           /\ props \subseteq given =>
                 /\ returned["evaluate"].value \in BOOLEAN
                 /\ ~evaluate(args.formula, needed).raised
                 /\ returned["evaluate"].value = evaluate(args.formula, needed).value

\* evaluate returned a value under an assignment that names a proposition the
\* formula does not reference.
C18_Witness ==
    /\ "evaluate" \in DOMAIN returned
    /\ ~returned["evaluate"].raised
    /\ DOMAIN args.truth_values # atomic_propositions(args.formula.ast)

\* C16 (parser grouping): the binary connectives bind from loosest to
\* tightest as Iff < Implies < {Or, Nor} < Xor < {And, Nand}, and Not binds
\* tighter than all of them; of two connectives of the same level in a row
\* the left one groups first, except that a chain of implications groups to
\* the right (A -> B -> C is A -> (B -> C)); a parenthesised sub-expression
\* is parsed as a unit.
C16_ParserGrouping ==
    LET Kind == [a |-> "AND", o |-> "OR", i |-> "IMPLIES", e |-> "IFF",
                 x |-> "XOR", u |-> "NAND", d |-> "NOR"]
        Level == [IFF |-> 1, IMPLIES |-> 2, OR |-> 3, NOR |-> 3, XOR |-> 4,
                  AND |-> 5, NAND |-> 5]
        Node(p, l, r) == Bin(Kind[p], p, l, r)
        Left(p, q) == Node(q, Node(p, Prop("A"), Prop("B")), Prop("C"))
        Right(p, q) == Node(p, Prop("A"), Node(q, Prop("B"), Prop("C")))
        Grouped(p, q) ==
            IF Level[Kind[p]] > Level[Kind[q]] THEN Left(p, q)
            ELSE IF Level[Kind[p]] < Level[Kind[q]] THEN Right(p, q)
            ELSE IF Kind[p] = "IMPLIES" THEN Right(p, q)
            ELSE Left(p, q)
    IN \A k \in DOMAIN Constructed : \A p, q \in BinaryOperators :
          /\ args[k] = "A " \o p \o " B " \o q \o " C"
                => Constructed[k].ast = Grouped(p, q)
          /\ args[k] = "(A " \o p \o " B) " \o q \o " C"
                => Constructed[k].ast = Left(p, q)
          /\ args[k] = "A " \o p \o " (B " \o q \o " C)"
                => Constructed[k].ast = Right(p, q)
          /\ args[k] = "nA " \o p \o " B"
                => Constructed[k].ast = Node(p, Neg("n", Prop("A")), Prop("B"))
          /\ args[k] = "n(A " \o p \o " B)"
                => Constructed[k].ast = Neg("n", Node(p, Prop("A"), Prop("B")))
          /\ args[k] = "A " \o p \o " nB"
                => Constructed[k].ast = Node(p, Prop("A"), Neg("n", Prop("B")))

\* A -> B -> C, and A v B ^ C with its two parenthesised forms, were
\* constructed: the chain of implications has an implication on its right.
C16_Witness ==
    /\ Len(Constructed) = 3
    /\ args[1] = "A i B i C"
    /\ Constructed[1].ast.type = "IMPLIES"
    /\ Constructed[1].ast.right.type = "IMPLIES"
    /\ Constructed[1].ast = Constructed[3].ast
    /\ Constructed[1].ast # Constructed[2].ast

\* C17 (structural equality): two formulas compare equal exactly when their
\* trees have the same shape, the same connective kinds and the same
\* letters at the leaves, whatever the spacing, the redundant parentheses
\* and the operator alphabet (ASCII or symbolic) of their texts; A ^ B is
\* not equal to B ^ A; equality is reflexive, symmetric and transitive.
C17_StructuralEquality ==
    LET RECURSIVE Shape(_)
        Shape(node) ==
            IF node.type = "PROP" THEN <<node.value>>
            ELSE IF node.type = "NOT" THEN <<"NOT", Shape(node.operand)>>
            ELSE <<node.type, Shape(node.left), Shape(node.right)>>
        Conjunctive == {"A a B", "A&B", "( A  a  B )", "((A) & (B))"}
        Conditional == {"A i B", "A -> B"}
        Asked == DOMAIN Compared
    IN /\ \A pair \in Asked :
             /\ Compared[pair] = (Shape(Constructed[pair[1]].ast)
                                    = Shape(Constructed[pair[2]].ast))
             /\ args[pair[1]] \in Conjunctive /\ args[pair[2]] \in Conjunctive
                   => Compared[pair]
             /\ args[pair[1]] \in Conditional /\ args[pair[2]] \in Conditional
                   => Compared[pair]
             /\ args[pair[1]] \in Conjunctive /\ args[pair[2]] = "B a A"
                   => ~Compared[pair]
             /\ pair[1] = pair[2] => Compared[pair]
             /\ <<pair[2], pair[1]>> \in Asked
                   => Compared[<<pair[2], pair[1]>>] = Compared[pair]
       /\ \A first, second \in Asked :
             /\ first[2] = second[1]
             /\ <<first[1], second[2]>> \in Asked
             /\ Compared[first]
             /\ Compared[second]
             => Compared[<<first[1], second[2]>>]

\* A ^ B in three spellings was compared in all nine ways.
C17_Witness ==
    /\ args = <<"A a B", "((A) & (B))", "( A  a  B )">>
    /\ DOMAIN Compared = (1..3) \X (1..3)
    /\ \A pair \in DOMAIN Compared : Compared[pair]

\* C19 (counter-example search): find_counter_example(premises, conclusion)
\* returns an assignment over the propositions of the premises and the
\* conclusion that makes every premise true and the conclusion false
\* whenever such an assignment exists, and returns none exactly when none
\* exists.
C19_CounterExample ==
    "find_counter_example" \in DOMAIN returned =>
        LET answer == returned["find_counter_example"]
            letters == AllProps(Append(args.premises, args.conclusion))
            refuting ==
                {v \in [letters -> BOOLEAN] :
                    /\ \A k \in DOMAIN args.premises :
                          evaluate_node(args.premises[k].ast, v)
                    /\ ~evaluate_node(args.conclusion.ast, v)}
        IN /\ answer.found <=> refuting # {}
           /\ answer.found => answer.assignment \in refuting
           /\ ~answer.found => answer = NoAssignment

\* From A -> B and B the search refuted A, with A false and B true; from
\* A -> B and A it found nothing against B.
C19_Witness ==
    /\ "find_counter_example" \in DOMAIN returned
    /\ args.premises = <<Formula("A i B"), Formula("B")>>
    /\ args.conclusion = Formula("A")
    /\ returned["find_counter_example"].found
    /\ returned["find_counter_example"].assignment = [A |-> FALSE, B |-> TRUE]

\* C21 (premise consistency): validate_premises_and_conclusion on a
\* non-empty premise list and a conclusion returns failure, with the message
\* that the premises are contradictory, whenever no truth assignment makes
\* all premises true, and success whenever some assignment does, for every
\* conclusion.
C21_PremiseConsistency ==
    /\ "validate_premises_and_conclusion" \in DOMAIN returned
    /\ args.premises # <<>>
    /\ args.conclusion # None
    => LET answer == returned["validate_premises_and_conclusion"]
           letters == AllProps(Append(args.premises, args.conclusion))
           consistent ==
               \E v \in [letters -> BOOLEAN] :
                  \A k \in DOMAIN args.premises :
                     evaluate_node(args.premises[k].ast, v)
       IN /\ answer.is_valid <=> consistent
          /\ ~answer.is_valid
                => answer.message = "Premises are contradictory (no valid truth assignment)"

\* C22 (idempotence): a call of clear() leaves no premises, no steps, no
\* conclusion, the completion flag false and the next index 1, and a call of
\* clear() after one was made leaves the proof as it is; a call of
\* generate_from_formulas after one was made on the same formula list leaves
\* the headers and the rows as they are.
C22_Idempotence ==
    [][/\ Len(Calls("clear"))' > Len(Calls("clear")) =>
             /\ premises' = <<>>
             /\ proof_steps' = <<>>
             /\ conclusion' = None
             /\ ~is_complete'
             /\ step_index' = 1
             /\ Len(Calls("clear")) >= 1 => proof_vars' = proof_vars
       /\ /\ Len(Calls("generate_from_formulas"))' > Len(Calls("generate_from_formulas"))
          /\ Len(Calls("generate_from_formulas")) >= 1
          => /\ table'.headers = table.headers
             /\ table'.rows = table.rows]_vars

\* Both operations were called twice, clear() first on a complete proof of
\* three steps, generate_from_formulas on two formulas over two letters.
C22_Witness ==
    /\ Len(Calls("clear")) = 2
    /\ Len(Calls("generate_from_formulas")) = 2
    /\ Len(args.proof.proof_steps) = 3
    /\ args.proof.is_complete
    /\ proof_steps = <<>>
    /\ Len(args.formulas) = 2
    /\ Len(table.rows) = 4
    /\ Len(table.headers) = 4

\* C23 (precondition and conclusion agree): for every rule, every tuple of
\* formulas and every setting of the rule's parameter, apply returns a
\* formula when can_apply returns true and no formula when can_apply returns
\* false, Double Negation in the mode eliminate and Absorption on
\* P -> (R ^ S) among them.
C23_PreconditionAgrees ==
    rule_out # NotRun => (rule_out.applicable <=> IsFormula(rule_out.formula))

\* C24 (termination of the search): the body of the while statement of
\* auto_prove is executed only while fewer steps than the budget were added
\* and the proof is incomplete; a round after which the search goes on has
\* added a step, so that there are at most max_steps rounds; and the search
\* returns with completion true, after a round that added no step, or with
\* the count of added steps at the budget or above.
C24_Termination ==
    [][Searching =>
          /\ returned'.rounds > returned.rounds =>
                /\ returned.steps_added < args.max_steps
                /\ ~is_complete
                /\ returned'.rounds <= args.max_steps
                /\ Searching' => returned'.steps_added > returned.steps_added
                /\ Len(proof_steps') - Len(proof_steps)
                      >= returned'.steps_added - returned.steps_added
          /\ ~Searching' =>
                \/ is_complete' /\ returned'["auto_prove"].success
                \/ /\ returned'.rounds > returned.rounds
                   /\ proof_steps' = proof_steps
                \/ returned'.steps_added >= args.max_steps]_vars

\* A search of two rounds that added steps in both and gave up at the
\* budget.
C24_Witness ==
    /\ "auto_prove" \in DOMAIN returned
    /\ "rounds" \in DOMAIN returned
    /\ returned.rounds = 2
    /\ returned.steps_added >= args.max_steps
    /\ ~returned["auto_prove"].success
    /\ Len(proof_steps) > Len(args.proof.proof_steps) + 1

\* C25 (the search stops at completion): when the completion flag becomes
\* true in a round of auto_prove, the call returns success from that round
\* and the step that made the flag true is the last step of the proof: after
\* none of the steps the round added before it was the proof complete.
C25_StopsAtCompletion ==
    [][(Searching /\ returned'.rounds > returned.rounds /\ is_complete') =>
          /\ ~Searching'
          /\ returned'["auto_prove"].success
          /\ Len(proof_steps') > Len(proof_steps)
          /\ \A n \in (Len(proof_steps) + 1)..(Len(proof_steps') - 1) :
                ~check_if_complete([Self EXCEPT !.proof_steps = SubSeq(proof_steps', 1, n)])
          /\ check_if_complete([Self EXCEPT !.proof_steps = proof_steps'])]_vars

\* The search on A -> B, B -> C, A for C returned from its first round with
\* two steps added, C the last.
C25_Witness ==
    /\ "auto_prove" \in DOMAIN returned
    /\ "rounds" \in DOMAIN returned
    /\ returned["auto_prove"].success
    /\ returned.rounds = 1
    /\ is_complete
    /\ Len(args.proof.proof_steps) = 3
    /\ Len(proof_steps) = 5
    /\ FormulaEq(proof_steps[5].formula, conclusion)

\* C26 as stated (parameter coverage): in every round of auto_prove each
\* rule with an extra parameter is attempted on every step under every
\* setting of the parameter, Conjunction Elimination and Simplification with
\* both sides, Biconditional Elimination in both directions, Double Negation
\* in both modes: after a round that did not complete the proof, none of
\* these calls on a step the round started with would add a step.
C26_ParameterCoverage ==
    [][(Searching /\ returned'.rounds > returned.rounds /\ ~is_complete') =>
          \A k \in DOMAIN proof_steps :
             \A setting \in
                   {<<name, [which |-> which]>> :
                       name \in {"Conjunction Elimination", "Simplification"},
                       which \in {"left", "right"}}
                   \cup {<<"Biconditional Elimination", [direction |-> direction]>> :
                            direction \in {"forward", "backward"}}
                   \cup {<<"Double Negation", [mode |-> mode]>> :
                            mode \in {"eliminate", "introduce"}} :
                ~apply_rule(Self', setting[1], <<proof_steps[k].index>>, setting[2]).ret.success]_vars

\* C26 amended: the same for Conjunction Elimination and Simplification with
\* both sides and Biconditional Elimination in both directions, while Double
\* Negation is attempted in the mode eliminate only and Addition not at all:
\* a step the search adds by Double Negation removes a double negation from
\* the step it depends on, and no step is added by Addition.
C26_ParameterCoverageAmended ==
    [][(Searching /\ returned'.rounds > returned.rounds) =>
          /\ ~is_complete' =>
                \A k \in DOMAIN proof_steps :
                   \A setting \in
                         {<<name, [which |-> which]>> :
                             name \in {"Conjunction Elimination", "Simplification"},
                             which \in {"left", "right"}}
                         \cup {<<"Biconditional Elimination", [direction |-> direction]>> :
                                  direction \in {"forward", "backward"}}
                         \cup {<<"Double Negation", [mode |-> "eliminate"]>>} :
                      ~apply_rule(Self', setting[1], <<proof_steps[k].index>>,
                                  setting[2]).ret.success
          /\ \A n \in (Len(proof_steps) + 1)..Len(proof_steps') :
                /\ proof_steps'[n].justification # "Addition"
                /\ proof_steps'[n].justification = "Double Negation" =>
                      LET from == StepWithIndex(Self', proof_steps'[n].dependencies[1]).formula
                      IN /\ from.ast.type = "NOT"
                         /\ from.ast.operand.type = "NOT"
                         /\ formulas_equal(proof_steps'[n].formula.ast,
                                           from.ast.operand.operand)]_vars

\* A round on A ^ B that added A and B by Conjunction Elimination, from the
\* left and from the right, and did not complete the proof.
C26_Witness ==
    /\ "rounds" \in DOMAIN returned
    /\ returned.rounds >= 1
    /\ ~is_complete
    /\ Len(args.proof.proof_steps) = 1
    /\ args.proof.proof_steps[1].formula = Formula("A a B")
    /\ \E n, m \in DOMAIN proof_steps :
          /\ proof_steps[n].justification = "Conjunction Elimination"
          /\ proof_steps[m].justification = "Conjunction Elimination"
          /\ proof_steps[n].formula = Formula("A")
          /\ proof_steps[m].formula = Formula("B")

\* C27 (soundness end to end): in every state reached by add_premise,
\* set_conclusion, apply_rule and auto_prove the formula of every step is
\* true under every truth assignment that makes all premises true, and when
\* auto_prove has returned success find_counter_example(premises,
\* conclusion) returns none.
C27_ProofSoundness ==
    LET letters == AllProps(premises)
                   \cup AllProps([k \in DOMAIN proof_steps |-> proof_steps[k].formula])
        models == {v \in [letters -> BOOLEAN] :
                      \A k \in DOMAIN premises : evaluate_node(premises[k].ast, v)}
    IN /\ \A k \in DOMAIN proof_steps :
             \A v \in models : evaluate_node(proof_steps[k].formula.ast, v)
       /\ (result.op = "auto_prove" /\ result.success) =>
             \A props_list \in Orders(AllProps(Append(premises, conclusion))) :
                find_counter_example(premises, conclusion, props_list) = NoAssignment

\* C28 (order of the setup): when the conclusion is equal to one of the
\* premises, auto_prove returns success and adds no step, whether the
\* conclusion was set before or after that premise was added.
C28_SetupOrder ==
    [][(/\ call.op = "auto_prove"
        /\ conclusion # None
        /\ \E k \in DOMAIN premises : FormulaEq(premises[k], conclusion))
       => /\ result'.success
          /\ proof_steps' = proof_steps]_vars

\* C29 (derived steps are justified): in every state, the justification of
\* a step that is not a premise is the name of one of the 19 rules of the
\* catalog, the step has as many dependencies as the rule takes formulas,
\* and the precondition of the rule holds on the formulas of the steps its
\* dependencies name, in their order.
C29_StepsJustified ==
    \A n \in DOMAIN proof_steps :
       proof_steps[n].justification # "Premise" =>
          LET step == proof_steps[n]
              named == {k \in DOMAIN get_all_rules :
                           get_all_rules[k].name = step.justification}
              arity(abbreviation) ==
                  IF abbreviation \in {"MP", "MT", "HS", "DS", "CI", "BI", "RES"} THEN 2
                  ELSE IF abbreviation = "CD" THEN 3
                  ELSE 1
          IN /\ Len(get_all_rules) = 19
             /\ Cardinality(named) = 1
             /\ \A k \in named :
                   /\ Len(step.dependencies) = arity(get_all_rules[k].abbreviation)
                   /\ \A d \in DOMAIN step.dependencies :
                         StepWithIndex(Self, step.dependencies[d]) # NoStep
                   /\ can_apply(get_all_rules[k],
                                [d \in DOMAIN step.dependencies |->
                                    StepWithIndex(Self, step.dependencies[d]).formula])

\* Hypothetical Syllogism on the steps 1 and 2, A -> B and B -> C, added a
\* third step.
C29_Witness ==
    /\ Len(proof_steps) = 3
    /\ proof_steps[3].justification = "Hypothetical Syllogism"
    /\ proof_steps[3].dependencies = <<1, 2>>
    /\ proof_steps[1].formula = Formula("A i B")
    /\ proof_steps[2].formula = Formula("B i C")

\* C30 (two-form rules are involutions): whenever De Morgan 1, De Morgan 2,
\* Transposition, Implication or Exportation applies to a formula F, it
\* applies to what it returns for F, and applied to that it returns a
\* formula structurally equal to F.
C30_Involution ==
    ("again" \in DOMAIN returned /\ rule_out.applicable) =>
        /\ returned["again"].applicable
        /\ IsFormula(returned["again"].formula)
        /\ FormulaEq(returned["again"].formula, rule_in[1])

====
